---- MODULE Spec2Model ----
(***************************************************************************)
(* A model of the gateway core: the reporting pipeline (src/src/reports.rs),*)
(* the horizon tracker (src/src/horizon.rs) and the TAP receipt signer     *)
(* (src/src/receipts.rs).                                                  *)
(*                                                                         *)
(* Time is counted in whole seconds of the monotonic clock (tokio Instant).*)
(* Option<T> is modelled as a sequence: None is <<>>, Some(x) is <<x>>.    *)
(* Byte strings are sequences of byte values.                              *)
(***************************************************************************)
EXTENDS Integers, Naturals, Sequences, FiniteSets, TLC

(***************************************************************************)
(* Bounds of the model.                                                    *)
(***************************************************************************)
MaxTime == 23
MaxRequests == 2
MaxSamplerRequests == 3
MaxIndexerRequests == 2
MaxDetailRequests == 1
MaxTrusted == 2
MaxNetworks == 2
MaxContracts == 2

(***************************************************************************)
(* Program constants.                                                      *)
(***************************************************************************)
EVICTION_SECS == 10
MAX_PAYLOAD_BYTES == 100000
ADDRESS_LEN == 20
B256_LEN == 32

SeqsUpTo(S, n) == UNION {[1..k -> S] : k \in 0..n}

None == <<>>
Some(x) == <<x>>
IsSome(o) == Len(o) = 1
Unwrap(o) == o[1]

(***************************************************************************)
(* Identifiers (thegraph_core): Address and AllocationId are 20 bytes,     *)
(* CollectionId and DeploymentId are 32 bytes.                             *)
(***************************************************************************)
Bytes(n, b) == [i \in 1..n |-> b]

\* CollectionId -> Address / AllocationId: the last (low) 20 bytes.
as_address(c) == SubSeq(c, B256_LEN - ADDRESS_LEN + 1, B256_LEN)

\* Address / AllocationId -> CollectionId: left-padded with zero bytes.
\* Widening that puts the address in the high bytes.
CollectionIdFrom_right_padded(a) == a \o Bytes(B256_LEN - ADDRESS_LEN, 0)

CollectionIdFrom(a) == Bytes(B256_LEN - ADDRESS_LEN, 0) \o a

VARIABLES
    clock,               \* the monotonic clock, in seconds
    attestation_sampler, \* Reporter.attestation_sampler: [records, last_eviction]
    write_buf,           \* Reporter.write_buf: the messages encoded into it
    chan,                \* the unbounded mpsc channel of ClientRequest
    senders,             \* TRUE while some sender of the channel is alive
    task,                \* the spawned reporting task: "running" or "ended"
    sends,               \* every record handed to the Kafka producer, in order
    calls,               \* every call of should_sample, in order
    received,            \* every ClientRequest the task has received, in order
    next_id,             \* number of ClientRequests created so far
    horizon_active,      \* HorizonTracker.horizon_active
    trusted_indexers,    \* HorizonTracker.trusted_indexers
    monitor,             \* start_monitoring: [pc, idx], idx the indexer queried next
    check,               \* the running or last check_horizon_status call
    last_receipt,        \* the last call of a ReceiptSigner method
    indexer_query,       \* the running or last IndexerClient::query_indexer call
    block_error_check,   \* the last check_block_error call
    poi_clock,           \* the clock of the POI resolver, in seconds
    poi_cache,           \* PoiResolver.cache
    poi_ttl,             \* the TTL of PoiResolver.cache
    poi_timeout,         \* PoiResolver.timeout
    resolve_call,        \* the running or last PoiResolver::resolve call of each caller
    resolves,            \* number of resolve calls made so far
    lookups,             \* number of resolve calls that have looked the cache up
    topology,            \* the upstream records: [indexers_info, subgraphs_info, values]
    snapshot             \* the NetworkTopologySnapshot built from them, once built

reporter_vars == <<clock, attestation_sampler, write_buf, chan, senders, task,
                   sends, calls, received, next_id>>
horizon_vars == <<horizon_active, trusted_indexers, monitor, check>>
signer_vars == <<last_receipt>>
client_vars == <<indexer_query, block_error_check>>
poi_vars == <<poi_clock, poi_cache, poi_ttl, poi_timeout, resolve_call, resolves,
             lookups>>
snapshot_vars == <<topology, snapshot>>

vars == <<reporter_vars, horizon_vars, signer_vars, client_vars, poi_vars,
         snapshot_vars>>

\* What the actions of one component leave alone.
beside_reporter == <<horizon_vars, signer_vars, client_vars, poi_vars,
                      snapshot_vars>>
beside_horizon == <<reporter_vars, signer_vars, client_vars, poi_vars,
                     snapshot_vars>>
beside_signer == <<reporter_vars, horizon_vars, client_vars, poi_vars,
                    snapshot_vars>>
beside_client == <<reporter_vars, horizon_vars, signer_vars, poi_vars,
                    snapshot_vars>>
beside_poi == <<reporter_vars, horizon_vars, signer_vars, client_vars, snapshot_vars>>
beside_snapshot == <<reporter_vars, horizon_vars, signer_vars, client_vars, poi_vars>>

(***************************************************************************)
(* Receipts (src/src/receipts.rs).  A receipt is V1 (allocation-based) or  *)
(* V2 (collection-based).  The signature is kept as the signing domain's   *)
(* version: "1" or "2".                                                    *)
(***************************************************************************)
V1Receipt(allocation_id, fee, timestamp_ns, nonce) ==
    [ver |-> "V1", allocation_id |-> allocation_id, value |-> fee,
     timestamp_ns |-> timestamp_ns, nonce |-> nonce, domain |-> "1"]

V2Receipt(collection_id, payer_, data_service_, service_provider_, fee, timestamp_ns, nonce) ==
    [ver |-> "V2", collection_id |-> collection_id, payer |-> payer_,
     data_service |-> data_service_, service_provider |-> service_provider_,
     value |-> fee, timestamp_ns |-> timestamp_ns, nonce |-> nonce,
     domain |-> "2"]

is_v1(r) == r.ver = "V1"
is_v2(r) == r.ver = "V2"
value(r) == r.value

collection(r) ==
    IF is_v1(r) THEN CollectionIdFrom(r.allocation_id) ELSE r.collection_id

allocation(r) ==
    IF is_v1(r) THEN r.allocation_id ELSE as_address(r.collection_id)

payer(r) == IF is_v1(r) THEN None ELSE Some(r.payer)
\* data_service reading the payer field.
data_service_as_payer(r) == IF is_v1(r) THEN None ELSE Some(r.payer)

data_service(r) == IF is_v1(r) THEN None ELSE Some(r.data_service)
service_provider(r) == IF is_v1(r) THEN None ELSE Some(r.service_provider)

(***************************************************************************)
(* The attestation sampler (reports.rs).                                   *)
(***************************************************************************)
AttestationSamplerNew(now) == [records |-> {}, last_eviction |-> now]

\* should_sample clearing the set without recording the time of the eviction.
should_sample_unstamped(s, now, deployment, indexer) ==
    LET evict == now - s.last_eviction > EVICTION_SECS
        recs  == IF evict THEN {} ELSE s.records
    IN  [records       |-> recs \cup {<<deployment, indexer>>},
         last_eviction |-> s.last_eviction,
         ret           |-> <<deployment, indexer>> \notin recs]

\* should_sample evicting already when exactly 10 s have passed.
should_sample_at_10(s, now, deployment, indexer) ==
    LET evict == now - s.last_eviction >= EVICTION_SECS
        recs  == IF evict THEN {} ELSE s.records
    IN  [records       |-> recs \cup {<<deployment, indexer>>},
         last_eviction |-> IF evict THEN now ELSE s.last_eviction,
         ret           |-> <<deployment, indexer>> \notin recs]

\* The sampler after the call, with the call's return value in `ret`.
should_sample(s, now, deployment, indexer) ==
    LET evict == now - s.last_eviction > EVICTION_SECS
        recs  == IF evict THEN {} ELSE s.records
    IN  [records       |-> recs \cup {<<deployment, indexer>>},
         last_eviction |-> IF evict THEN now ELSE s.last_eviction,
         ret           |-> <<deployment, indexer>> \notin recs]

(***************************************************************************)
(* Reporter::report (reports.rs).                                          *)
(*                                                                         *)
(* An IndexerRequest is [indexer, deployment, receipt, result, request]:   *)
(* result is [ok |-> FALSE, err] or [ok |-> TRUE, original_response,       *)
(* attestation]; request and original_response are kept as their lengths   *)
(* in bytes; attestation is an Option.                                     *)
(***************************************************************************)
\* IndexerQueryProtobuf filling `allocation` for every receipt.
IndexerQueryProtobuf_always_allocation(ir) ==
    [indexer    |-> ir.indexer,
     deployment |-> ir.deployment,
     allocation |-> Some(allocation(ir.receipt)),
     collection |-> IF is_v1(ir.receipt) THEN None ELSE Some(collection(ir.receipt)),
     fee        |-> value(ir.receipt),
     result     |-> IF ir.result.ok THEN "success" ELSE ir.result.err]

IndexerQueryProtobuf(ir) ==
    [indexer    |-> ir.indexer,
     deployment |-> ir.deployment,
     allocation |-> IF is_v1(ir.receipt) THEN Some(allocation(ir.receipt)) ELSE None,
     collection |-> IF is_v1(ir.receipt) THEN None ELSE Some(collection(ir.receipt)),
     fee        |-> value(ir.receipt),
     result     |-> IF ir.result.ok THEN "success" ELSE ir.result.err]

ClientQueryProtobuf(cr) ==
    [msg             |-> "ClientQuery",
     query_id        |-> cr.id,
     result          |-> cr.result,
     indexer_queries |-> [i \in 1..Len(cr.indexer_requests) |->
                             IndexerQueryProtobuf(cr.indexer_requests[i])]]

\* AttestationProtobuf dropping a payload of exactly MAX_PAYLOAD_BYTES.
AttestationProtobuf_strict(ir) ==
    [msg        |-> "Attestation",
     request    |-> IF ir.request < MAX_PAYLOAD_BYTES THEN Some(ir.request) ELSE None,
     response   |-> IF ir.result.original_response < MAX_PAYLOAD_BYTES
                    THEN Some(ir.result.original_response) ELSE None,
     allocation |-> IF is_v1(ir.receipt) THEN allocation(ir.receipt)
                    ELSE as_address(collection(ir.receipt)),
     subgraph_deployment |-> Unwrap(ir.result.attestation).deployment]

AttestationProtobuf(ir) ==
    [msg        |-> "Attestation",
     request    |-> IF ir.request <= MAX_PAYLOAD_BYTES THEN Some(ir.request) ELSE None,
     response   |-> IF ir.result.original_response <= MAX_PAYLOAD_BYTES
                    THEN Some(ir.result.original_response) ELSE None,
     allocation |-> IF is_v1(ir.receipt) THEN allocation(ir.receipt)
                    ELSE as_address(collection(ir.receipt)),
     subgraph_deployment |-> Unwrap(ir.result.attestation).deployment]

\* prost's encode appends the encoding of the message to the buffer.
encode(msg, buf) == Append(buf, msg)

\* The result has an attestation: result.ok().and_then(|r| r.attestation?).
HasAttestation(ir) == ir.result.ok /\ IsSome(ir.result.attestation)

\* kafka_producer.send of the buffer to a topic.  st is the state of the
\* running report call; the send is the (st.nsend + 1)-th of the call and
\* the producer refuses it exactly when that number is fail_at.  `by`
\* names the request and the indexer request the record is sent for (0 for
\* the request's own record).  A refused send makes report return (the ?
\* operator) before write_buf.clear().
kafka_send(st, topic, by, fail_at) ==
    LET n  == st.nsend + 1
        ok == n # fail_at
    IN  [st EXCEPT !.nsend = n,
                   !.sends = Append(@, [topic |-> topic, payload |-> st.write_buf,
                                        accepted |-> ok, by |-> by]),
                   !.failed = ~ok,
                   !.write_buf = IF ok THEN <<>> ELSE @]

\* The iteration taking the sampler's slot of the pair only for an indexer
\* request that carries an attestation.
report_indexer_request_slot_if_attested(st, id, i, ir, now, fail_at) ==
    LET s  == should_sample(st.sampler, now, ir.deployment, ir.indexer)
        s1 == [st EXCEPT !.sampler =
                            [records |-> IF HasAttestation(ir) \/ ~s.ret
                                         THEN s.records
                                         ELSE s.records \ {<<ir.deployment, ir.indexer>>},
                             last_eviction |-> s.last_eviction],
                         !.calls = Append(@, [now |-> now, by |-> <<id, i>>,
                                              pair |-> <<ir.deployment, ir.indexer>>,
                                              ret |-> s.ret,
                                              window |-> s.last_eviction])]
    IN  IF ~s.ret THEN s1
        ELSE IF ~HasAttestation(ir) THEN s1
        ELSE kafka_send([s1 EXCEPT !.write_buf = encode(AttestationProtobuf(ir), @)],
                        "attestations", <<id, i>>, fail_at)

\* One iteration of the loop over client_request.indexer_requests.
report_indexer_request(st, id, i, ir, now, fail_at) ==
    LET s  == should_sample(st.sampler, now, ir.deployment, ir.indexer)
        s1 == [st EXCEPT !.sampler = [records |-> s.records,
                                      last_eviction |-> s.last_eviction],
                         !.calls = Append(@, [now |-> now, by |-> <<id, i>>,
                                              pair |-> <<ir.deployment, ir.indexer>>,
                                              ret |-> s.ret,
                                              window |-> s.last_eviction])]
    IN  IF ~s.ret THEN s1
        ELSE IF ~HasAttestation(ir) THEN s1
        ELSE kafka_send([s1 EXCEPT !.write_buf = encode(AttestationProtobuf(ir), @)],
                        "attestations", <<id, i>>, fail_at)

\* The loop going on with the next indexer request after a refused send.
RECURSIVE report_loop_continuing(_, _, _, _, _)
report_loop_continuing(st, cr, i, now, fail_at) ==
    IF i > Len(cr.indexer_requests) THEN st
    ELSE report_loop_continuing(report_indexer_request(st, cr.id, i,
                                                       cr.indexer_requests[i],
                                                       now, fail_at),
                                cr, i + 1, now, fail_at)

RECURSIVE report_loop(_, _, _, _, _)
report_loop(st, cr, i, now, fail_at) ==
    IF st.failed \/ i > Len(cr.indexer_requests) THEN st
    ELSE report_loop(report_indexer_request(st, cr.id, i, cr.indexer_requests[i],
                                            now, fail_at),
                     cr, i + 1, now, fail_at)

\* report sending no `queries` record for a request without indexer requests.
report_skip_empty(st, cr, now, fail_at) ==
    IF cr.indexer_requests = <<>> THEN st
    ELSE report_loop(kafka_send([st EXCEPT !.write_buf =
                                     encode(ClientQueryProtobuf(cr), @)],
                                "queries", <<cr.id, 0>>, fail_at),
                     cr, 1, now, fail_at)

\* report sending the `queries` record after the attestation records.
report_queries_last(st, cr, now, fail_at) ==
    LET a == report_loop(st, cr, 1, now, fail_at)
    IN  IF a.failed THEN a
        ELSE kafka_send([a EXCEPT !.write_buf = encode(ClientQueryProtobuf(cr), @)],
                        "queries", <<cr.id, 0>>, fail_at)

report(st, cr, now, fail_at) ==
    LET q == kafka_send([st EXCEPT !.write_buf = encode(ClientQueryProtobuf(cr), @)],
                        "queries", <<cr.id, 0>>, fail_at)
    IN  report_loop(q, cr, 1, now, fail_at)

(***************************************************************************)
(* Reporter::create: the reporter, the channel and the spawned task.       *)
(***************************************************************************)
\* The loop `while let Some(msg) = rx.recv().await` after report(msg)
\* returned: an error is logged and the loop goes on.
\* The loop leaving on an error of report (`reporter.report(msg)?`).
task_after_report_propagating(failed) == IF failed THEN "ended" ELSE "running"

task_after_report(failed) == "running"

ReporterInit ==
    /\ clock = 0
    /\ attestation_sampler = AttestationSamplerNew(0)
    /\ write_buf = <<>>
    /\ chan = <<>>
    /\ senders = TRUE
    /\ task = "running"
    /\ sends = <<>>
    /\ calls = <<>>
    /\ received = <<>>
    /\ next_id = 0

\* The monotonic clock advances by d seconds.
Tick(d) ==
    /\ clock + d <= MaxTime
    /\ clock' = clock + d
    /\ UNCHANGED beside_reporter
    /\ UNCHANGED <<attestation_sampler, write_buf, chan, senders, task, sends,
                   calls, received, next_id>>

\* A holder of the sender puts a ClientRequest on the channel.
Enqueue(result, indexer_requests, max_requests) ==
    /\ senders
    /\ next_id < max_requests
    /\ next_id' = next_id + 1
    /\ chan' = Append(chan, [id |-> next_id + 1, result |-> result,
                             indexer_requests |-> indexer_requests])
    /\ UNCHANGED beside_reporter
    /\ UNCHANGED <<clock, attestation_sampler, write_buf, senders, task, sends,
                   calls, received>>

\* The last sender of the channel is dropped.
DropSenders ==
    /\ senders
    /\ senders' = FALSE
    /\ UNCHANGED beside_reporter
    /\ UNCHANGED <<clock, attestation_sampler, write_buf, chan, task, sends,
                   calls, received, next_id>>

\* rx.recv() yields the next message and the task reports it; the Kafka
\* producer refuses the fail_at-th send of the call (none when 0).
Recv ==
    /\ task = "running"
    /\ chan # <<>>
    /\ \E fail_at \in 0..(1 + Len(Head(chan).indexer_requests)) :
         LET st == report([sampler |-> attestation_sampler, write_buf |-> write_buf,
                           sends |-> sends, calls |-> calls, nsend |-> 0,
                           failed |-> FALSE],
                          Head(chan), clock, fail_at)
         IN  /\ attestation_sampler' = st.sampler
             /\ write_buf' = st.write_buf
             /\ sends' = st.sends
             /\ calls' = st.calls
             /\ task' = task_after_report(st.failed)
    /\ chan' = Tail(chan)
    /\ received' = Append(received, Head(chan))
    /\ UNCHANGED beside_reporter
    /\ UNCHANGED <<clock, senders, next_id>>

\* rx.recv() yields None: the channel is closed and empty; the task ends.
TaskEnd ==
    /\ task = "running"
    /\ chan = <<>>
    /\ ~senders
    /\ task' = "ended"
    /\ UNCHANGED beside_reporter
    /\ UNCHANGED <<clock, attestation_sampler, write_buf, chan, senders, sends,
                   calls, received, next_id>>

(***************************************************************************)
(* The horizon tracker (src/src/horizon.rs).                               *)
(*                                                                         *)
(* The answer of a trusted indexer to the status query is                  *)
(*   [kind |-> "request_failed"]   query_indexer returned an error,        *)
(*   [kind |-> "unparsable"]       the body is no HorizonStatusQuery,      *)
(*   [kind |-> "parsed", errors, data]   with errors and data Options and  *)
(*   data = [graph_networks |-> a sequence of GraphNetwork].               *)
(* A GraphNetwork is [tap_collection_contracts, tap_allocation_contracts], *)
(* sequences of TapContract, a TapContract is [active].                    *)
(***************************************************************************)
PreHorizon == "PreHorizon"
PostHorizon == "PostHorizon"

count_active(contracts) ==
    Cardinality({i \in 1..Len(contracts) : contracts[i].active})

\* The closure of graph_networks.iter().any(..) counting collection
\* contracts that only outnumber the allocation contracts.
network_horizon_active_outnumber(network) ==
    LET active_collection_contracts == count_active(network.tap_collection_contracts)
        active_allocation_contracts == count_active(network.tap_allocation_contracts)
    IN  /\ active_collection_contracts > 0
        /\ \/ active_allocation_contracts = 0
           \/ active_collection_contracts > active_allocation_contracts

\* The closure of graph_networks.iter().any(..).
network_horizon_active(network) ==
    LET active_collection_contracts == count_active(network.tap_collection_contracts)
        active_allocation_contracts == count_active(network.tap_allocation_contracts)
    IN  /\ active_collection_contracts > 0
        /\ \/ active_allocation_contracts = 0
           \/ active_collection_contracts >= active_allocation_contracts

\* Ok(answer) or Err(reason), as [ok, answer] or [ok, err].
query_indexer_for_horizon_status(response) ==
    IF response.kind = "request_failed"
    THEN [ok |-> FALSE, err |-> "Failed to query indexer"]
    ELSE IF response.kind = "unparsable"
    THEN [ok |-> FALSE, err |-> "Failed to parse horizon status response"]
    ELSE IF IsSome(response.errors)
    THEN [ok |-> FALSE, err |-> "GraphQL errors"]
    ELSE IF ~IsSome(response.data)
    THEN [ok |-> FALSE, err |-> "Missing data in response"]
    ELSE [ok |-> TRUE,
          answer |-> \E i \in 1..Len(Unwrap(response.data).graph_networks) :
                        network_horizon_active(Unwrap(response.data).graph_networks[i])]

\* check_horizon_status returning at the first indexer that fails.
next_indexer_giving_up(i, n) == n + 1

\* `continue` in the loop over trusted_indexers: on to the next one.
next_indexer(i, n) == i + 1

is_horizon_active == horizon_active

get_tap_strategy == IF is_horizon_active THEN PostHorizon ELSE PreHorizon

should_generate_v1(strategy) == strategy = PreHorizon
should_generate_v2(strategy) == strategy = PostHorizon

\* HorizonTracker::new with a configured list of n trusted indexers.
HorizonTrackerNew(n) ==
    /\ horizon_active = FALSE
    /\ trusted_indexers = [i \in 1..n |-> [url |-> <<"trusted", i>>]]
    /\ monitor = [pc |-> "new", idx |-> 0]
    /\ check = [began_with |-> FALSE, consulted |-> <<>>, outcome |-> "none"]

\* check_horizon_status is entered: at startup, and after every tick.
BeginCheck(from) ==
    /\ monitor.pc = from
    /\ monitor' = [pc |-> "checking", idx |-> 1]
    /\ check' = [began_with |-> horizon_active, consulted |-> <<>>,
                 outcome |-> "pending"]
    /\ UNCHANGED <<horizon_active, trusted_indexers>>
    /\ UNCHANGED beside_horizon

\* start_monitoring: "check immediately on startup".
StartMonitoring == BeginCheck("new")

\* interval.tick().await completes: the next check.
IntervalTick == BeginCheck("waiting")

\* The turn of the loop clearing the flag when the indexer's query fails.
QueryTrustedIndexer_clearing(response) ==
    /\ monitor.pc = "checking"
    /\ monitor.idx <= Len(trusted_indexers)
    /\ LET res == query_indexer_for_horizon_status(response)
           entry == [indexer |-> trusted_indexers[monitor.idx],
                     response |-> response, result |-> res]
       IN  /\ IF res.ok
              THEN /\ horizon_active' = res.answer
                   /\ monitor' = [pc |-> "waiting", idx |-> 0]
                   /\ check' = [check EXCEPT !.consulted = Append(@, entry),
                                             !.outcome = "ok"]
              ELSE /\ horizon_active' = FALSE
                   /\ monitor' = [monitor EXCEPT
                                     !.idx = next_indexer(@, Len(trusted_indexers))]
                   /\ check' = [check EXCEPT !.consulted = Append(@, entry)]
    /\ UNCHANGED trusted_indexers
    /\ UNCHANGED beside_horizon

\* One turn of the loop over trusted_indexers: the indexer answers with
\* `response`; its answer is stored and the check returns Ok, or the loop
\* goes on.
QueryTrustedIndexer(response) ==
    /\ monitor.pc = "checking"
    /\ monitor.idx <= Len(trusted_indexers)
    /\ LET res == query_indexer_for_horizon_status(response)
           entry == [indexer |-> trusted_indexers[monitor.idx],
                     response |-> response, result |-> res]
       IN  /\ IF res.ok
              THEN /\ horizon_active' =
                         IF res.answer # horizon_active THEN res.answer
                         ELSE horizon_active
                   /\ monitor' = [pc |-> "waiting", idx |-> 0]
                   /\ check' = [check EXCEPT !.consulted = Append(@, entry),
                                             !.outcome = "ok"]
              ELSE /\ horizon_active' = horizon_active
                   /\ monitor' = [monitor EXCEPT
                                     !.idx = next_indexer(@, Len(trusted_indexers))]
                   /\ check' = [check EXCEPT !.consulted = Append(@, entry)]
    /\ UNCHANGED trusted_indexers
    /\ UNCHANGED beside_horizon

\* The loop is exhausted: Err("All trusted indexers failed horizon status
\* check"), which start_monitoring logs before it awaits the next tick.
AllIndexersFailed ==
    /\ monitor.pc = "checking"
    /\ monitor.idx > Len(trusted_indexers)
    /\ monitor' = [pc |-> "waiting", idx |-> 0]
    /\ check' = [check EXCEPT !.outcome = "err"]
    /\ UNCHANGED <<horizon_active, trusted_indexers>>
    /\ UNCHANGED beside_horizon

TapContracts == [active : BOOLEAN]
GraphNetworks ==
    [tap_collection_contracts : SeqsUpTo(TapContracts, MaxContracts),
     tap_allocation_contracts : SeqsUpTo(TapContracts, MaxContracts)]
ActiveNetwork ==
    [tap_collection_contracts |-> <<[active |-> TRUE]>>,
     tap_allocation_contracts |-> <<>>]
\* Bodies without `errors` carry every data; bodies with `errors` (an empty
\* list included) carry no data, no network, or an active network.
HorizonResponses ==
    {[kind |-> "request_failed"], [kind |-> "unparsable"]}
    \cup {[kind |-> "parsed", errors |-> None, data |-> d] :
             d \in {None} \cup {Some([graph_networks |-> ns]) :
                                   ns \in SeqsUpTo(GraphNetworks, MaxNetworks)}}
    \cup {[kind |-> "parsed", errors |-> Some(e), data |-> d] :
             e \in {<<>>, <<"indexing_error">>},
             d \in {None, Some([graph_networks |-> <<>>]),
                    Some([graph_networks |-> <<ActiveNetwork>>])}}

IndexerAnswers == \E response \in HorizonResponses : QueryTrustedIndexer(response)

NextHorizon ==
    \/ StartMonitoring
    \/ IntervalTick
    \/ IndexerAnswers
    \/ AllIndexersFailed

(***************************************************************************)
(* The receipt signer (src/src/receipts.rs).                               *)
(*                                                                         *)
(* timestamp is the wall clock in nanoseconds as an Option: None when it   *)
(* does not fit in a u64 (try_into fails); signed tells whether the        *)
(* signer produced a signature.  A method returns [ok |-> TRUE, receipt]   *)
(* or [ok |-> FALSE, err].                                                 *)
(***************************************************************************)
create_receipt_v1(allocation_id, fee, timestamp, nonce, signed) ==
    IF ~IsSome(timestamp)
    THEN [ok |-> FALSE, err |-> "failed to convert timestamp to ns"]
    ELSE IF ~signed
    THEN [ok |-> FALSE, err |-> "failed to sign v1 receipt"]
    ELSE [ok |-> TRUE,
          receipt |-> V1Receipt(allocation_id, fee, Unwrap(timestamp), nonce)]

create_receipt(collection_id, fee, payer_, data_service_, service_provider_, timestamp, nonce, signed) ==
    IF ~IsSome(timestamp)
    THEN [ok |-> FALSE, err |-> "failed to convert timestamp to ns"]
    ELSE IF ~signed
    THEN [ok |-> FALSE, err |-> "failed to sign v2 receipt"]
    ELSE [ok |-> TRUE,
          receipt |-> V2Receipt(collection_id, payer_, data_service_,
                                service_provider_, fee, Unwrap(timestamp), nonce)]

\* create_receipt_with_strategy signing v2 receipts whatever the strategy.
create_receipt_with_strategy_v2_only(strategy, collection_or_allocation, fee, payer_, data_service_, service_provider_, timestamp, nonce, signed) ==
    create_receipt(collection_or_allocation, fee, payer_, data_service_,
                   service_provider_, timestamp, nonce, signed)

create_receipt_with_strategy(strategy, collection_or_allocation, fee, payer_, data_service_, service_provider_, timestamp, nonce, signed) ==
    IF strategy = PreHorizon
    THEN create_receipt_v1(as_address(collection_or_allocation), fee, timestamp,
                           nonce, signed)
    ELSE create_receipt(collection_or_allocation, fee, payer_, data_service_,
                        service_provider_, timestamp, nonce, signed)

\* ReceiptSigner::generation_version: the version the signer says it generates.
generation_version == "V2"

SignerInit == last_receipt = None


Addresses == {Bytes(ADDRESS_LEN, 1), Bytes(ADDRESS_LEN, 2)}
\* 32-byte ids with zero and with non-zero high 12 bytes.
CollectionIds ==
    {Bytes(B256_LEN - ADDRESS_LEN, h) \o a : h \in {0, 7}, a \in Addresses}
Fees == {0, 1000}
Timestamps == {None, Some(5)}
Nonces == {42}

\* A caller asks for a receipt under a strategy.
CreateReceiptWithStrategy ==
    /\ last_receipt = None
    /\ \E strategy \in {PreHorizon, PostHorizon}, c \in CollectionIds, fee \in Fees,
       p \in Addresses, ds \in Addresses, sp \in Addresses,
       ts \in Timestamps, nonce \in Nonces, signed \in BOOLEAN :
        /\ last_receipt' =
              Some([method |-> "create_receipt_with_strategy",
                    strategy |-> strategy, id |-> c, fee |-> fee, payer |-> p,
                    data_service |-> ds, service_provider |-> sp,
                    timestamp |-> ts, signed |-> signed,
                    result |-> create_receipt_with_strategy(strategy, c, fee, p, ds,
                                                            sp, ts, nonce, signed)])
        /\ UNCHANGED beside_signer

create_receipt_for_indexer(indexer_supports_v2, collection_id, fee, payer_, data_service_, service_provider_, timestamp, nonce, signed) ==
    IF indexer_supports_v2
    THEN create_receipt(collection_id, fee, payer_, data_service_,
                        service_provider_, timestamp, nonce, signed)
    ELSE create_receipt_v1(as_address(collection_id), fee, timestamp, nonce, signed)

\* An unsigned v1 receipt: the signature is a placeholder of zero bytes.
create_v1_for_processing(allocation_id, fee, timestamp_ns, nonce) ==
    [V1Receipt(allocation_id, fee, timestamp_ns, nonce) EXCEPT !.domain = "placeholder"]

normalize_for_processing(r) ==
    IF is_v1(r) THEN <<CollectionIdFrom(r.allocation_id), r.value>>
    ELSE <<r.collection_id, r.value>>

(***************************************************************************)
(* Receipt::from_json.  The two serde_json::from_str calls are library     *)
(* code: what each answers for the text is an input, a receipt of the type *)
(* asked for or an error.                                                  *)
(***************************************************************************)
from_json(v2_receipt, v1_receipt) ==
    IF v2_receipt.ok THEN [ok |-> TRUE, receipt |-> v2_receipt.receipt]
    ELSE IF v1_receipt.ok THEN [ok |-> TRUE, receipt |-> v1_receipt.receipt]
    ELSE [ok |-> FALSE,
          err |-> "Failed to parse receipt as either v1 or v2 format"]

\* create_receipt_v1 called with an allocation id.
CreateReceiptV1 ==
    /\ last_receipt = None
    /\ \E a \in Addresses, fee \in Fees, ts \in Timestamps, nonce \in Nonces,
       signed \in BOOLEAN :
        /\ last_receipt' =
              Some([method |-> "create_receipt_v1", id |-> a, fee |-> fee,
                    timestamp |-> ts, signed |-> signed,
                    result |-> create_receipt_v1(a, fee, ts, nonce, signed)])
        /\ UNCHANGED beside_signer

\* create_receipt (and its aliases create_receipt_v2, create_receipt_default).
CreateReceipt ==
    /\ last_receipt = None
    /\ \E c \in CollectionIds, fee \in Fees, p \in Addresses, ds \in Addresses,
       sp \in Addresses, ts \in Timestamps, nonce \in Nonces, signed \in BOOLEAN :
        /\ last_receipt' =
              Some([method |-> "create_receipt", id |-> c, fee |-> fee,
                    payer |-> p, data_service |-> ds, service_provider |-> sp,
                    timestamp |-> ts, signed |-> signed,
                    result |-> create_receipt(c, fee, p, ds, sp, ts, nonce, signed)])
        /\ UNCHANGED beside_signer

\* create_receipt_for_indexer with the capability the caller states.
CreateReceiptForIndexer ==
    /\ last_receipt = None
    /\ \E v2 \in BOOLEAN, c \in CollectionIds, fee \in Fees, p \in Addresses,
       ds \in Addresses, sp \in Addresses, ts \in Timestamps,
       nonce \in Nonces, signed \in BOOLEAN :
        /\ last_receipt' =
              Some([method |-> "create_receipt_for_indexer",
                    indexer_supports_v2 |-> v2, id |-> c, fee |-> fee,
                    payer |-> p, data_service |-> ds, service_provider |-> sp,
                    timestamp |-> ts, signed |-> signed,
                    result |-> create_receipt_for_indexer(v2, c, fee, p, ds, sp, ts,
                                                          nonce, signed)])
        /\ UNCHANGED beside_signer

\* Receipt::create_v1_for_processing: always a receipt.
CreateV1ForProcessing ==
    /\ last_receipt = None
    /\ \E a \in Addresses, fee \in Fees, nonce \in Nonces :
        /\ last_receipt' =
              Some([method |-> "create_v1_for_processing", id |-> a, fee |-> fee,
                    result |-> [ok |-> TRUE,
                                receipt |-> create_v1_for_processing(a, fee, 5, nonce)]])
        /\ UNCHANGED beside_signer

\* What serde_json::from_str answers for a text an indexer sent, for each of
\* the two types from_json asks for.
SampleV1 == V1Receipt(Bytes(ADDRESS_LEN, 1), 1000, 5, 42)
V2Sample == V2Receipt(Bytes(B256_LEN, 1), Bytes(ADDRESS_LEN, 1), Bytes(ADDRESS_LEN, 2),
                      Bytes(ADDRESS_LEN, 3), 1000, 5, 42)
ParsedV2 == {[ok |-> FALSE], [ok |-> TRUE, receipt |-> V2Sample]}
ParsedV1 == {[ok |-> FALSE], [ok |-> TRUE, receipt |-> SampleV1]}

\* from_json applied to a text received from an indexer.
FromJson ==
    /\ last_receipt = None
    /\ \E v2_receipt \in ParsedV2, v1_receipt \in ParsedV1 :
        /\ last_receipt' = Some([method |-> "from_json",
                                 v2_receipt |-> v2_receipt, v1_receipt |-> v1_receipt,
                                 result |-> from_json(v2_receipt, v1_receipt)])
        /\ UNCHANGED beside_signer

(***************************************************************************)
(* Indexers of the network snapshot                                        *)
(* (src/graph-gateway/src/network/snapshot.rs).                            *)
(*                                                                         *)
(* A semver Version is [major, minor, patch, pre]; pre is None for a       *)
(* release and Some(k) for a pre-release, k the rank of the pre-release    *)
(* identifier in semver order ("aaa" 0, "alpha" 1, "beta" 2).              *)
(***************************************************************************)
Version(major, minor, patch, pre) ==
    [major |-> major, minor |-> minor, patch |-> patch, pre |-> pre]

\* a < b in semver precedence: a pre-release precedes its release.
version_lt(a, b) ==
    \/ a.major < b.major
    \/ a.major = b.major /\ a.minor < b.minor
    \/ a.major = b.major /\ a.minor = b.minor /\ a.patch < b.patch
    \/ /\ a.major = b.major /\ a.minor = b.minor /\ a.patch = b.patch
       /\ \/ IsSome(a.pre) /\ ~IsSome(b.pre)
          \/ IsSome(a.pre) /\ IsSome(b.pre) /\ Unwrap(a.pre) < Unwrap(b.pre)

\* "1.0.0-alpha"
min_required_indexer_agent_version_scalar_tap_support == Version(1, 0, 0, Some(1))

\* The Indexer that new_from builds from an IndexerInfo.
SnapshotIndexer(info) ==
    [id |-> info.id, indexer_agent_version |-> info.indexer_agent_version,
     scalar_tap_support |->
        ~version_lt(info.indexer_agent_version,
                    min_required_indexer_agent_version_scalar_tap_support)]

AgentVersions ==
    {Version(0, 9, 9, None), Version(1, 0, 0, Some(0)), Version(1, 0, 0, Some(1)),
     Version(1, 0, 0, Some(2)), Version(1, 0, 0, None), Version(1, 1, 0, None)}

\* A receipt is signed for a request to an indexer of the snapshot, by the
\* strategy of the moment or by the indexer's capability.
SignForIndexer ==
    /\ last_receipt = None
    /\ \E v \in AgentVersions, by_strategy \in BOOLEAN,
       strategy \in {PreHorizon, PostHorizon}, c \in CollectionIds, fee \in Fees,
       ts \in Timestamps, nonce \in Nonces, signed \in BOOLEAN :
        LET indexer == SnapshotIndexer([id |-> as_address(c), indexer_agent_version |-> v])
            p  == Bytes(ADDRESS_LEN, 1)
            ds == Bytes(ADDRESS_LEN, 2)
            sp == indexer.id
        IN  /\ last_receipt' =
                  Some([method |-> IF by_strategy THEN "create_receipt_with_strategy"
                                   ELSE "create_receipt_for_indexer",
                        indexer |-> indexer, strategy |-> strategy,
                        indexer_supports_v2 |-> indexer.scalar_tap_support,
                        id |-> c, fee |-> fee, payer |-> p, data_service |-> ds,
                        service_provider |-> sp, timestamp |-> ts, signed |-> signed,
                        result |->
                           IF by_strategy
                           THEN create_receipt_with_strategy(strategy, c, fee, p, ds, sp,
                                                             ts, nonce, signed)
                           ELSE create_receipt_for_indexer(indexer.scalar_tap_support, c,
                                                           fee, p, ds, sp, ts, nonce,
                                                           signed)])
            /\ UNCHANGED beside_signer

\* The caller has used the receipt, or the outcome of parsing one.
ReceiptUsed ==
    /\ last_receipt # None
    /\ last_receipt' = None
    /\ UNCHANGED beside_signer

NextSigner ==
    \/ CreateReceiptWithStrategy
    \/ SignForIndexer
    \/ CreateReceiptV1
    \/ CreateReceipt
    \/ CreateReceiptForIndexer
    \/ CreateV1ForProcessing
    \/ FromJson
    \/ ReceiptUsed

(***************************************************************************)
(* The indexer clients: graph-gateway's IndexerClient                      *)
(* (src/graph-gateway/src/indexer_client.rs) and the core's                *)
(* (src/src/indexer_client.rs).                                            *)
(*                                                                         *)
(* A hex character is modelled by its value 0..15.  An IndexerError is     *)
(* [kind] with `status` for UnattestableError and `msg` for Other.  What   *)
(* comes back from the network is                                          *)
(*   [kind |-> "timeout"], [kind |-> "connect"]   transport errors,        *)
(*   [kind |-> "http", status, body]              an HTTP response,        *)
(* a body being [json |-> FALSE] (empty or not the expected JSON) or       *)
(* [json |-> TRUE, payload |-> [graphQLResponse, attestation, error]] with *)
(* Options as fields.                                                      *)
(***************************************************************************)
HEX_STRIP == 64

hex_encode(bytes) ==
    [i \in 1..(2 * Len(bytes)) |->
        IF i % 2 = 1 THEN bytes[(i + 1) \div 2] \div 16
        ELSE bytes[i \div 2] % 16]

\* The header keeping the last characters instead of the first.
scalar_receipt_header_tail(receipt) ==
    LET hex == hex_encode(receipt)
    IN  IF Len(hex) < HEX_STRIP THEN [panic |-> TRUE]
        ELSE [panic |-> FALSE, header |-> SubSeq(hex, HEX_STRIP + 1, Len(hex))]

\* The header stripped of 32 hex characters only.
scalar_receipt_header_strip_32(receipt) ==
    LET hex == hex_encode(receipt)
    IN  IF Len(hex) < HEX_STRIP THEN [panic |-> TRUE]
        ELSE [panic |-> FALSE, header |-> SubSeq(hex, 1, Len(hex) - 32)]

\* The header computed with a saturating subtraction: empty for fewer than
\* 64 characters.
scalar_receipt_header_saturating(receipt) ==
    LET hex == hex_encode(receipt)
    IN  IF Len(hex) < HEX_STRIP THEN [panic |-> FALSE, header |-> <<>>]
        ELSE [panic |-> FALSE, header |-> SubSeq(hex, 1, Len(hex) - HEX_STRIP)]

\* &receipt[0..(receipt.len() - 64)] of the hex encoding; the subtraction
\* overflows, or the slice is out of range, for fewer than 64 characters.
scalar_receipt_header(receipt) ==
    LET hex == hex_encode(receipt)
    IN  IF Len(hex) < HEX_STRIP THEN [panic |-> TRUE]
        ELSE [panic |-> FALSE, header |-> SubSeq(hex, 1, Len(hex) - HEX_STRIP)]

Timeout == [kind |-> "Timeout"]
UnexpectedPayload == [kind |-> "UnexpectedPayload"]
UnattestableError(status) == [kind |-> "UnattestableError", status |-> status]
Other(msg) == [kind |-> "Other", msg |-> msg]
Err(e) == [ok |-> FALSE, err |-> e]

is_client_error(status) == 400 <= status /\ status <= 499
is_server_error(status) == 500 <= status /\ status <= 599

\* The payload without graphQLResponse reported as UnexpectedPayload.
gateway_payload_result_unexpected(status, payload) ==
    IF IsSome(payload.graphQLResponse)
    THEN [ok |-> TRUE, status |-> status,
          payload |-> [body |-> Unwrap(payload.graphQLResponse),
                       attestation |-> payload.attestation]]
    ELSE Err(UnexpectedPayload)

\* The payload without graphQLResponse reported without its error string.
gateway_payload_result_default_message(status, payload) ==
    IF IsSome(payload.graphQLResponse)
    THEN [ok |-> TRUE, status |-> status,
          payload |-> [body |-> Unwrap(payload.graphQLResponse),
                       attestation |-> payload.attestation]]
    ELSE Err(Other("GraphQL response not found"))

\* graph-gateway, after response.json(): lines 107-123.
gateway_payload_result(status, payload) ==
    IF IsSome(payload.graphQLResponse)
    THEN [ok |-> TRUE, status |-> status,
          payload |-> [body |-> Unwrap(payload.graphQLResponse),
                       attestation |-> payload.attestation]]
    ELSE Err(Other(IF IsSome(payload.error) THEN Unwrap(payload.error)
                   ELSE "GraphQL response not found"))

\* The classification of errors reading the body of a 5xx response first.
gateway_error_result_reading_body(response) ==
    IF response.kind = "timeout" THEN Err(Timeout)
    ELSE IF response.kind = "http" /\ is_server_error(response.status)
            /\ response.body.json
    THEN Err(UnattestableError(response.status))
    ELSE Err(Other("error sending request or error status"))

\* graph-gateway, the Err arms of the match on the result of send() and
\* error_for_status(): lines 87-100.
gateway_error_result(response) ==
    IF response.kind = "timeout" THEN Err(Timeout)
    ELSE IF response.kind = "http" /\ is_server_error(response.status)
    THEN Err(UnattestableError(response.status))
    ELSE Err(Other("error sending request or error status"))

\* graph-gateway's query_indexer from the moment the request is sent.
gateway_query_result(response) ==
    IF \/ response.kind # "http"
       \/ is_client_error(response.status)
       \/ is_server_error(response.status)
    THEN gateway_error_result(response)
    ELSE IF ~response.body.json
    THEN Err(Other("error decoding response body"))
    ELSE gateway_payload_result(response.status, response.body.payload)

\* The core's query_indexer from the moment the request is sent: no
\* error_for_status, and graphQLResponse is a required field.
core_query_result(response) ==
    IF response.kind = "timeout" THEN Err(Timeout)
    ELSE IF response.kind # "http" THEN Err(Other("error sending request"))
    ELSE IF ~response.body.json \/ ~IsSome(response.body.payload.graphQLResponse)
    THEN Err(Other("error decoding response body"))
    ELSE [ok |-> TRUE, status |-> response.status,
          payload |-> Unwrap(response.body.payload.graphQLResponse),
          attestation |-> response.body.payload.attestation]

ClientInit ==
    /\ indexer_query = [pc |-> "idle"]
    /\ block_error_check = None

\* query_indexer up to the await of send(): the header is computed, the url
\* is joined (graph-gateway only) and the request is handed to the HTTP
\* client.
SendQuery(client, receipt, query, url_ok) ==
    /\ indexer_query.pc \notin {"sent", "reading"}
    /\ LET h == scalar_receipt_header(receipt)
           call == [client |-> client, receipt |-> receipt, query |-> query]
       IN  indexer_query' =
              IF h.panic
              THEN call @@ [pc |-> "panicked", request |-> None]
              ELSE IF client = "graph-gateway" /\ ~url_ok
              THEN call @@ [pc |-> "done", request |-> None,
                            result |-> Err(Other("url join error"))]
              ELSE call @@ [pc |-> "sent",
                            request |-> Some([content_type |-> "application/json",
                                              scalar_receipt |-> h.header,
                                              body |-> query])]
    /\ UNCHANGED block_error_check
    /\ UNCHANGED beside_client

\* The result of send() (and, in graph-gateway, of error_for_status) is Ok:
\* query_indexer goes on to response.json().await.
awaits_body(client, response) ==
    /\ response.kind = "http"
    /\ \/ client = "core"
       \/ ~(is_client_error(response.status) \/ is_server_error(response.status))

\* send().await completes.  An error of the transport or (graph-gateway) an
\* error status is classified and returned; otherwise the status is read
\* and the call waits for the body at response.json().await.
IndexerResponds(response) ==
    /\ indexer_query.pc = "sent"
    /\ LET call == [client |-> indexer_query.client,
                    receipt |-> indexer_query.receipt,
                    query |-> indexer_query.query,
                    request |-> indexer_query.request, response |-> response]
       IN  indexer_query' =
              IF awaits_body(indexer_query.client, response)
              THEN call @@ [pc |-> "reading", response_status |-> response.status]
              ELSE call @@ [pc |-> "done",
                            result |-> IF indexer_query.client = "graph-gateway"
                                       THEN gateway_query_result(response)
                                       ELSE core_query_result(response)]
    /\ UNCHANGED block_error_check
    /\ UNCHANGED beside_client

\* response.json().await completes: the body has arrived, it is decoded and
\* the result is returned with the status read before the wait.
BodyRead ==
    /\ indexer_query.pc = "reading"
    /\ indexer_query' =
          [pc |-> "done", client |-> indexer_query.client,
           receipt |-> indexer_query.receipt, query |-> indexer_query.query,
           request |-> indexer_query.request, response |-> indexer_query.response,
           response_status |-> indexer_query.response_status,
           result |-> IF indexer_query.client = "graph-gateway"
                      THEN gateway_query_result(indexer_query.response)
                      ELSE core_query_result(indexer_query.response)]
    /\ UNCHANGED block_error_check
    /\ UNCHANGED beside_client

\* Serialized receipts: a body of up to MaxReceiptBody bytes before the 32
\* bytes that are stripped, and receipts shorter than 32 bytes.
MaxReceiptBody == 2
ReceiptBytes ==
    {body \o Bytes(32, t) : body \in SeqsUpTo({10, 171}, MaxReceiptBody), t \in {1, 255}}
    \cup {Bytes(31, 171), <<>>}

Queries == {"{ tokens { id } }", "{ _meta { block { number } } }"}

SampleAttestation == [deployment |-> "QmA"]
Payloads ==
    [graphQLResponse : {None, Some("{\"data\":{}}")},
     attestation : {None, Some(SampleAttestation)},
     error : {None, Some("indexing_error")}]
Bodies == {[json |-> FALSE]} \cup {[json |-> TRUE, payload |-> pl] : pl \in Payloads}
Statuses == {200, 404, 500, 503}
Responses ==
    {[kind |-> "timeout"], [kind |-> "connect"]}
    \cup {[kind |-> "http", status |-> st, body |-> b] : st \in Statuses, b \in Bodies}

GatewayQuery ==
    \E receipt \in ReceiptBytes, query \in Queries, url_ok \in BOOLEAN :
        SendQuery("graph-gateway", receipt, query, url_ok)

CoreQuery ==
    \E receipt \in ReceiptBytes, query \in Queries :
        SendQuery("core", receipt, query, TRUE)

Response == \E response \in Responses : IndexerResponds(response)

(***************************************************************************)
(* check_block_error (src/graph-gateway/src/indexer_client.rs).            *)
(*                                                                         *)
(* A string is the sequence of its characters, the grave accent being     *)
(* written "backtick".  A u64 is the sequence of its decimal digits        *)
(* without leading zeros, so that the whole range of u64 is covered.       *)
(***************************************************************************)
\* "Failed to decode ", a grave accent, "block"
FAILED_TO_DECODE_BLOCK ==
    <<"F", "a", "i", "l", "e", "d", " ", "t", "o", " ", "d", "e", "c", "o",
      "d", "e", " ", "backtick", "b", "l", "o", "c", "k">>

\* "and data for block number "
UNRESOLVED_PREFIX ==
    <<"a", "n", "d", " ", "d", "a", "t", "a", " ", "f", "o", "r", " ", "b",
      "l", "o", "c", "k", " ", "n", "u", "m", "b", "e", "r", " ">>

\* "has only indexed up to block number "
REPORTED_STATUS_PREFIX ==
    <<"h", "a", "s", " ", "o", "n", "l", "y", " ", "i", "n", "d", "e", "x",
      "e", "d", " ", "u", "p", " ", "t", "o", " ", "b", "l", "o", "c", "k",
      " ", "n", "u", "m", "b", "e", "r", " ">>

\* u64::MAX, 18446744073709551615
U64_MAX ==
    <<"1", "8", "4", "4", "6", "7", "4", "4", "0", "7", "3", "7", "0", "9",
      "5", "5", "1", "6", "1", "5">>

DecimalDigits == <<"0", "1", "2", "3", "4", "5", "6", "7", "8", "9">>
is_digit(c) == \E i \in 1..Len(DecimalDigits) : DecimalDigits[i] = c
digit_value(c) == (CHOOSE i \in 1..Len(DecimalDigits) : DecimalDigits[i] = c) - 1

\* str::find: the position (from 1) of the first occurrence of pat in str.
find(str, pat) ==
    LET hits == {i \in 1..(Len(str) - Len(pat) + 1) :
                    SubSeq(str, i, i + Len(pat) - 1) = pat}
    IN  IF hits = {} THEN None
        ELSE Some(CHOOSE i \in hits : \A j \in hits : i <= j)

contains(str, pat) == IsSome(find(str, pat))

\* str::split_once on a space: the text before the first space, if any.
split_once_space(str) ==
    LET sp == find(str, <<" ">>)
    IN  IF IsSome(sp) THEN Some(SubSeq(str, 1, Unwrap(sp) - 1)) ELSE None

RECURSIVE strip_zeros(_)
strip_zeros(digits) ==
    IF Len(digits) > 1 /\ Head(digits) = "0" THEN strip_zeros(Tail(digits))
    ELSE digits

\* a <= b for digit sequences of the same length.
RECURSIVE digits_le(_, _)
digits_le(a, b) ==
    IF a = <<>> THEN TRUE
    ELSE IF digit_value(Head(a)) # digit_value(Head(b))
    THEN digit_value(Head(a)) < digit_value(Head(b))
    ELSE digits_le(Tail(a), Tail(b))

fits_u64(digits) ==
    \/ Len(digits) < Len(U64_MAX)
    \/ Len(digits) = Len(U64_MAX) /\ digits_le(digits, U64_MAX)

\* str::parse::<u64>().ok(): an optional "+", then digits only, at least one,
\* and no overflow.
parse_u64(str) ==
    LET unsigned == IF str # <<>> /\ Head(str) = "+" THEN Tail(str) ELSE str
    IN  IF unsigned = <<>> \/ \E i \in 1..Len(unsigned) : ~is_digit(unsigned[i])
        THEN None
        ELSE IF fits_u64(strip_zeros(unsigned)) THEN Some(strip_zeros(unsigned))
        ELSE None

\* The closure extract_block_number.
extract_block_number(err, prefix) ==
    LET at == find(err, prefix)
    IN  IF ~IsSome(at) THEN None
        ELSE LET start == Unwrap(at) + Len(prefix)
                 token == split_once_space(SubSeq(err, start, Len(err)))
             IN  IF IsSome(token) THEN parse_u64(Unwrap(token)) ELSE None

BlockError(unresolved, reported_status) ==
    [unresolved |-> unresolved, reported_status |-> reported_status]

\* check_block_error looking for the phrase at the start of err only.
check_block_error_at_start(err) ==
    IF find(err, FAILED_TO_DECODE_BLOCK) # Some(1)
    THEN [ok |-> TRUE]
    ELSE Err(BlockError(extract_block_number(err, UNRESOLVED_PREFIX),
                        extract_block_number(err, REPORTED_STATUS_PREFIX)))

check_block_error(err) ==
    IF ~contains(err, FAILED_TO_DECODE_BLOCK) THEN [ok |-> TRUE]
    ELSE Err(BlockError(extract_block_number(err, UNRESOLVED_PREFIX),
                        extract_block_number(err, REPORTED_STATUS_PREFIX)))

\* The pieces error messages are made of: the three phrases, numbers with
\* and without a space after them, a number above u64::MAX and a space.
MaxSegments == 5
Segments ==
    {FAILED_TO_DECODE_BLOCK, UNRESOLVED_PREFIX, REPORTED_STATUS_PREFIX,
     <<"7">>, <<"7", " ">>, <<"+", "5", " ">>,
     SubSeq(U64_MAX, 1, Len(U64_MAX) - 1) \o <<"6", " ">>,
     <<" ">>}

RECURSIVE concat(_)
concat(segments) ==
    IF segments = <<>> THEN <<>> ELSE Head(segments) \o concat(Tail(segments))

ErrorMessages == {concat(segments) : segments \in SeqsUpTo(Segments, MaxSegments)}

\* check_block_error is called with the error message of an indexer.
CheckBlockError ==
    /\ block_error_check = None
    /\ \E err \in ErrorMessages :
          block_error_check' = Some([err |-> err, result |-> check_block_error(err)])
    /\ UNCHANGED indexer_query
    /\ UNCHANGED beside_client

\* The caller has used the result.
BlockErrorHandled ==
    /\ block_error_check # None
    /\ block_error_check' = None
    /\ UNCHANGED indexer_query
    /\ UNCHANGED beside_client

NextClient ==
    \/ GatewayQuery
    \/ CoreQuery
    \/ Response
    \/ BodyRead

NextBlockError ==
    \/ CheckBlockError
    \/ BlockErrorHandled

(***************************************************************************)
(* The POI resolver                                                        *)
(* (src/graph-gateway/src/network/indexer_indexing_poi_resolver.rs).       *)
(*                                                                         *)
(* Time is in seconds.  A map of public POIs is a function from            *)
(* (deployment, block) pairs to POIs.  The cache is a TtlHashMap: a        *)
(* function from status URLs to Option<[value, insertion_time]>.  resolve  *)
(* takes the resolver by exclusive reference, so a call made while         *)
(* another one is inside resolve waits for it.                             *)
(***************************************************************************)
DEFAULT_CACHE_TLL == 20 * 60
DEFAULT_INDEXER_INDEXING_POIS_RESOLUTION_TIMEOUT == 5

ResolutionTimeout == [kind |-> "ResolutionError::Timeout"]

\* indexers::status_url: the status endpoint of the indexer's URL.
status_url(url) == <<url, "status">>

\* TtlHashMap: an entry is expired when now - insertion_time > ttl; get
\* returns the value of an entry that is not expired and leaves the map as
\* it is, insert stores the value with the time of the insertion.
ttl_expired(entry, ttl, now) == now - entry.insertion_time > ttl

ttl_get(cache, ttl, key, now) ==
    IF cache[key] = None \/ ttl_expired(Unwrap(cache[key]), ttl, now)
    THEN None
    ELSE Some(Unwrap(cache[key]).value)

ttl_insert(cache, key, v, now) ==
    [cache EXCEPT ![key] = Some([value |-> v, insertion_time |-> now])]

\* The POI an indexer publishes for a deployment at a block.
ProofOfIndexing(poi) == <<"poi", poi[1], poi[2]>>

\* indexers::public_poi::merge_queries: the POIs the indexer gave for the
\* requested pairs, in one map.
merge_queries(published, pois) ==
    [p \in (pois \cap published) |-> ProofOfIndexing(p)]

\* fetch_indexer_public_pois: tokio::time::timeout polls the fetch before
\* the deadline, so an answer that is ready when the timeout elapses is
\* still returned; ResolutionError::Timeout when the answer takes longer.
fetch_indexer_public_pois(timeout, elapsed, published, pois) ==
    IF elapsed <= timeout
    THEN [ok |-> TRUE, pois |-> merge_queries(published, pois)]
    ELSE Err(ResolutionTimeout)

\* How long fetch_indexer_public_pois takes.
fetch_duration(timeout, elapsed) == IF elapsed <= timeout THEN elapsed ELSE timeout

\* The lookup missing when the stored map lacks a requested pair.
resolve_lookup_for_pois(cache, ttl, key, pois, now) ==
    LET found == ttl_get(cache, ttl, key, now)
    IN  IF found # None /\ pois \subseteq DOMAIN Unwrap(found) THEN found ELSE None

\* resolve, the cache lookup: the stored map whatever pairs are requested.
resolve_lookup(cache, ttl, key, pois, now) == ttl_get(cache, ttl, key, now)

\* resolve, after the fetch: an error returns before the insertion.
resolve_insert_on_timeout(cache, key, fetched, now) ==
    IF fetched.ok THEN ttl_insert(cache, key, fetched.pois, now)
    ELSE ttl_insert(cache, key, <<>>, now)

resolve_insert_if_absent(cache, key, fetched, now) ==
    IF fetched.ok /\ cache[key] = None THEN ttl_insert(cache, key, fetched.pois, now)
    ELSE cache

resolve_insert(cache, key, fetched, now) ==
    IF fetched.ok THEN ttl_insert(cache, key, fetched.pois, now) ELSE cache

\* Indexer URLs, the pairs gateways ask for, the times a caller idles between
\* calls (around the TTL), the times an answer takes (below, at and above
\* the default timeout) and the timeouts given to with_timeout.
MaxResolves == 3
Callers == {1, 2}
IndexerUrls == {"http://indexer1/", "http://indexer2/"}
StatusUrls == {status_url(u) : u \in IndexerUrls}
PoiPairs == {<<"QmA", 7>>, <<"QmB", 7>>}
PoiRequests == {{<<"QmA", 7>>}, PoiPairs}
Published == {PoiPairs, {<<"QmA", 7>>}}
IdleTimes == {0, DEFAULT_CACHE_TLL, DEFAULT_CACHE_TLL + 1}
FetchTimes ==
    {2, DEFAULT_INDEXER_INDEXING_POIS_RESOLUTION_TIMEOUT,
     DEFAULT_INDEXER_INDEXING_POIS_RESOLUTION_TIMEOUT + 1}
ShortTimeout == 2
LongTimeout == 10
Timeouts == {ShortTimeout, LongTimeout}

\* PoiResolver::new
PoiResolverNew ==
    /\ poi_clock = 0
    /\ poi_cache = [k \in StatusUrls |-> None]
    /\ poi_ttl = DEFAULT_CACHE_TLL
    /\ poi_timeout = DEFAULT_INDEXER_INDEXING_POIS_RESOLUTION_TIMEOUT
    /\ resolve_call = [c \in Callers |-> [pc |-> "idle"]]
    /\ resolves = 0
    /\ lookups = 0

\* PoiResolver::with_timeout
PoiResolverWithTimeout(timeout) ==
    /\ poi_clock = 0
    /\ poi_cache = [k \in StatusUrls |-> None]
    /\ poi_ttl = DEFAULT_CACHE_TLL
    /\ poi_timeout = timeout
    /\ resolve_call = [c \in Callers |-> [pc |-> "idle"]]
    /\ resolves = 0
    /\ lookups = 0

\* resolve(&mut self, ..): the resolver is borrowed exclusively from the
\* start of a call to its return, the await of the fetch included.
resolver_shared(rc) == FALSE

resolver_borrowed(rc) == \E o \in DOMAIN rc : rc[o].pc = "fetching"

\* resolve up to the await of the fetch: the cache is looked up, a hit
\* returns a clone of the stored map.
resolve_begin(call, seq, cache, ttl, now) ==
    LET indexer_status_url == status_url(call.url)
        found == resolve_lookup(cache, ttl, indexer_status_url, call.pois, now)
        looked == [seq |-> seq, url |-> call.url, pois |-> call.pois,
                   called_at |-> call.called_at, lookup_at |-> now,
                   seen |-> cache[indexer_status_url]]
    IN  IF found # None
        THEN looked @@ [pc |-> "returned", hit |-> TRUE, fetched |-> FALSE,
                        result |-> [ok |-> TRUE, pois |-> Unwrap(found)],
                        returned_at |-> now]
        ELSE looked @@ [pc |-> "fetching"]

\* A caller, dt seconds after the last event, calls resolve(url, pois).  The
\* call starts at once when the resolver is free and waits for it when it is
\* not.  Time does not pass while a call is inside resolve: that call's
\* fetch carries the time.
CallResolve(c, url, pois, dt) ==
    /\ resolves < MaxResolves
    /\ resolve_call[c].pc \in {"idle", "returned"}
    /\ resolver_borrowed(resolve_call) => dt = 0
    /\ resolves' = resolves + 1
    /\ poi_clock' = poi_clock + dt
    /\ LET call == [pc |-> "waiting", url |-> url, pois |-> pois,
                    called_at |-> poi_clock + dt]
       IN  IF resolver_borrowed(resolve_call)
           THEN /\ resolve_call' = [resolve_call EXCEPT ![c] = call]
                /\ lookups' = lookups
           ELSE /\ resolve_call' = [resolve_call EXCEPT ![c] =
                       resolve_begin(call, lookups + 1, poi_cache, poi_ttl,
                                     poi_clock + dt)]
                /\ lookups' = lookups + 1
    /\ UNCHANGED <<poi_cache, poi_ttl, poi_timeout>>
    /\ UNCHANGED beside_poi

\* The resolver is free again: a waiting call starts.
ResolveBegin(c) ==
    /\ resolve_call[c].pc = "waiting"
    /\ ~resolver_borrowed(resolve_call)
    /\ resolve_call' = [resolve_call EXCEPT ![c] =
                           resolve_begin(resolve_call[c], lookups + 1, poi_cache,
                                         poi_ttl, poi_clock)]
    /\ lookups' = lookups + 1
    /\ UNCHANGED <<poi_clock, poi_cache, poi_ttl, poi_timeout, resolves>>
    /\ UNCHANGED beside_poi

\* resolve from the await on: the fetch ends after `elapsed` seconds or at
\* the timeout, a fetched map is inserted, an error is returned as it is.
ResolveEnd(c, elapsed, published) ==
    /\ resolve_call[c].pc = "fetching"
    /\ LET call == resolve_call[c]
           indexer_status_url == status_url(call.url)
           fetched == fetch_indexer_public_pois(poi_timeout, elapsed, published, call.pois)
           now == poi_clock + fetch_duration(poi_timeout, elapsed)
       IN  /\ poi_clock' = now
           /\ poi_cache' = resolve_insert(poi_cache, indexer_status_url, fetched, now)
           /\ resolve_call' = [resolve_call EXCEPT ![c] =
                  [seq |-> call.seq, url |-> call.url, pois |-> call.pois,
                   called_at |-> call.called_at, lookup_at |-> call.lookup_at,
                   seen |-> call.seen, pc |-> "returned", hit |-> FALSE,
                   fetched |-> TRUE, result |-> fetched, returned_at |-> now,
                   elapsed |-> elapsed, cache_before |-> poi_cache]]
    /\ UNCHANGED <<poi_ttl, poi_timeout, resolves, lookups>>
    /\ UNCHANGED beside_poi

Call == \E c \in Callers, url \in IndexerUrls, pois \in PoiRequests, dt \in IdleTimes :
            CallResolve(c, url, pois, dt)
Begin == \E c \in Callers : ResolveBegin(c)
End == \E c \in Callers, elapsed \in FetchTimes, published \in Published :
            ResolveEnd(c, elapsed, published)

NextPoi ==
    \/ Call
    \/ Begin
    \/ End

(***************************************************************************)
(* The network topology snapshot                                           *)
(* (src/graph-gateway/src/network/snapshot.rs).                            *)
(*                                                                         *)
(* A HashMap is a function on its keys, a HashSet a set, a Vec a sequence. *)
(* IndexerInfo, SubgraphInfo and DeploymentInfo are records of the fields  *)
(* new_from reads.  An IndexingId is [indexer, deployment].                *)
(***************************************************************************)
u8_MAX == 255

Range(s) == {s[i] : i \in DOMAIN s}

\* u32::saturating_sub
saturating_sub(a, b) == IF a >= b THEN a - b ELSE 0

\* highest.saturating_sub(version).try_into().unwrap_or(u8::MAX)
deployment_versions_behind(highest_version_number, version) ==
    LET behind == saturating_sub(highest_version_number, version)
    IN  IF behind <= u8_MAX THEN behind ELSE u8_MAX

\* subgraphs_info.values().flat_map(versions): the DeploymentInfo of every
\* version of every subgraph, the subgraphs in the iteration order of the
\* map (values), the versions of a subgraph in their order.
RECURSIVE listed_deployments(_, _)
listed_deployments(subgraphs_info, values) ==
    IF values = <<>> THEN <<>>
    ELSE LET versions == subgraphs_info[Head(values)].versions
         IN  [i \in 1..Len(versions) |-> versions[i].deployment]
                \o listed_deployments(subgraphs_info, Tail(values))

\* new_from, the deployments table of the input, collected into a map by
\* deployment id: the record of an id is the one listed last.
deployments_info_of(subgraphs_info, values) ==
    LET listed == listed_deployments(subgraphs_info, values)
        last(id) == CHOOSE i \in DOMAIN listed :
                        /\ listed[i].id = id
                        /\ \A j \in DOMAIN listed : listed[j].id = id => j <= i
    IN  [id \in {listed[i].id : i \in DOMAIN listed} |-> listed[last(id)]]

\* new_from, the indexers table.
indexers_of(indexers_info) ==
    [i \in DOMAIN indexers_info |-> SnapshotIndexer(indexers_info[i])]

construct_transferred_subgraphs_table(subgraphs_info) ==
    LET transferred_to_l2(subgraph) ==
            \A version \in Range(subgraph.versions) :
                /\ version.deployment.transferred_to_l2
                /\ version.deployment.allocations = <<>>
    IN  [s \in {id \in DOMAIN subgraphs_info :
                    /\ transferred_to_l2(subgraphs_info[id])
                    /\ subgraphs_info[id].id_on_l2 # None}
            |-> Unwrap(subgraphs_info[s].id_on_l2)]

construct_transferred_deployments_table_by_flag(deployments_info) ==
    {id \in DOMAIN deployments_info : deployments_info[id].transferred_to_l2}

construct_transferred_deployments_table(deployments_info) ==
    {id \in DOMAIN deployments_info :
        /\ deployments_info[id].transferred_to_l2
        /\ deployments_info[id].allocations = <<>>}

\* The filter_map over the allocations of a deployment: an allocation gives
\* an indexing when its indexer is known, lists the deployment as healthy and
\* has a largest allocation and a total of allocated tokens for it.
indexing_survives_unhealthy(indexers_info, deployment_id, alloc) ==
    /\ alloc.indexer \in DOMAIN indexers_info
    /\ deployment_id \in DOMAIN indexers_info[alloc.indexer].largest_allocation
    /\ deployment_id \in DOMAIN indexers_info[alloc.indexer].total_allocated_tokens

indexing_survives(indexers_info, deployment_id, alloc) ==
    /\ alloc.indexer \in DOMAIN indexers_info
    /\ deployment_id \in indexers_info[alloc.indexer].deployments
    /\ deployment_id \in DOMAIN indexers_info[alloc.indexer].largest_allocation
    /\ deployment_id \in DOMAIN indexers_info[alloc.indexer].total_allocated_tokens

Indexing(indexers_info, indexer_id, deployment_id, versions_behind) ==
    LET info == indexers_info[indexer_id]
    IN  [id |-> [indexer |-> indexer_id, deployment |-> deployment_id],
         versions_behind |-> versions_behind,
         largest_allocation |-> info.largest_allocation[deployment_id],
         total_allocated_tokens |-> info.total_allocated_tokens[deployment_id],
         indexer |-> indexers_of(indexers_info)[indexer_id],
         status |-> IF deployment_id \in DOMAIN info.indexings_progress
                    THEN Some(info.indexings_progress[deployment_id]) ELSE None]

\* The indexings of a deployment, by IndexingId.
deployment_indexings_of(indexers_info, deployment, versions_behind) ==
    LET indexers == {alloc.indexer : alloc \in
                        {a \in Range(deployment.allocations) :
                            indexing_survives(indexers_info, deployment.id, a)}}
    IN  [k \in {[indexer |-> i, deployment |-> deployment.id] : i \in indexers}
            |-> Indexing(indexers_info, k.indexer, k.deployment, versions_behind)]

\* The valid versions of a subgraph: the deployment has a manifest network
\* and is not transferred to L2.
valid_versions_with_network(transferred_deployments, listed) ==
    LET valid(version) == version.deployment.manifest_network # None
    IN  SelectSeq(listed, valid)

valid_versions(transferred_deployments, listed) ==
    LET valid(version) ==
            /\ version.deployment.manifest_network # None
            /\ version.deployment.id \notin transferred_deployments
    IN  SelectSeq(listed, valid)

\* The table keeping, for a deployment, the entry of the first version that
\* lists it.
versions_behind_table_first_wins(versions) ==
    LET highest_version_number == versions[1].version
        first(d) == CHOOSE i \in DOMAIN versions :
                        /\ versions[i].deployment.id = d
                        /\ \A j \in DOMAIN versions :
                              versions[j].deployment.id = d => i <= j
    IN  [d \in {v.deployment.id : v \in Range(versions)} |->
            deployment_versions_behind(highest_version_number, versions[first(d)].version)]

\* The versions_behind_table: collected in the order of the versions, so the
\* entry of a deployment is the one of the last version that lists it.
versions_behind_table_of(versions) ==
    LET highest_version_number == versions[1].version
        last(d) == CHOOSE i \in DOMAIN versions :
                       /\ versions[i].deployment.id = d
                       /\ \A j \in DOMAIN versions :
                             versions[j].deployment.id = d => j <= i
    IN  [d \in {v.deployment.id : v \in Range(versions)} |->
            deployment_versions_behind(highest_version_number, versions[last(d)].version)]

\* The subgraph_indexings: the indexings of the versions' deployments,
\* collected in the order of the versions.
subgraph_indexings_of(indexers_info, versions) ==
    LET versions_behind_table == versions_behind_table_of(versions)
        indexings_of(version) ==
            deployment_indexings_of(indexers_info, version.deployment,
                                    versions_behind_table[version.deployment.id])
        keys == UNION {DOMAIN indexings_of(v) : v \in Range(versions)}
        last(k) == CHOOSE i \in DOMAIN versions :
                       /\ k \in DOMAIN indexings_of(versions[i])
                       /\ \A j \in DOMAIN versions :
                             k \in DOMAIN indexings_of(versions[j]) => j <= i
    IN  [k \in keys |-> indexings_of(versions[last(k)])[k]]

\* The Subgraph of the valid versions and their indexings: None when there
\* is no indexing.
subgraph_entry_keeping_empty(subgraph, versions, subgraph_indexings) ==
    Some([id |-> subgraph.id,
          chain |-> Unwrap(versions[1].deployment.manifest_network),
          start_block |-> 0,
          deployments |-> {k.deployment : k \in DOMAIN subgraph_indexings},
          indexings |-> subgraph_indexings])

subgraph_entry(subgraph, versions, subgraph_indexings) ==
    LET highest_version == versions[1]
        subgraph_deployments == {k.deployment : k \in DOMAIN subgraph_indexings}
    IN  IF DOMAIN subgraph_indexings = {} THEN None
        ELSE IF subgraph_deployments = {} THEN None
        ELSE Some([id |-> subgraph.id,
                   chain |-> Unwrap(highest_version.deployment.manifest_network),
                   start_block |->
                      IF highest_version.deployment.manifest_start_block = None THEN 0
                      ELSE Unwrap(highest_version.deployment.manifest_start_block),
                   deployments |-> subgraph_deployments,
                   indexings |-> subgraph_indexings])

\* new_from, one subgraph of the subgraphs table: None when it is excluded.
subgraph_of(indexers_info, transferred_subgraphs, transferred_deployments, subgraph_id, subgraph) ==
    LET versions == valid_versions(transferred_deployments, subgraph.versions)
    IN  IF subgraph_id \in DOMAIN transferred_subgraphs THEN None
        ELSE IF versions = <<>> THEN None
        ELSE subgraph_entry(subgraph, versions,
                            subgraph_indexings_of(indexers_info, versions))

\* The subgraphs that refer to a deployment.
deployment_subgraphs_all(subgraphs, deployment_id) == DOMAIN subgraphs

deployment_subgraphs_of(subgraphs, deployment_id) ==
    {s \in DOMAIN subgraphs : deployment_id \in subgraphs[s].deployments}

\* new_from, one deployment of the deployments table: None when it is excluded.
deployment_of_manifest_only(indexers_info, transferred_deployments, subgraphs, deployment_id, deployment) ==
    IF deployment.manifest_network = None \/ deployment.manifest_start_block = None
    THEN None
    ELSE Some([id |-> deployment_id,
               chain |-> Unwrap(deployment.manifest_network),
               start_block |-> Unwrap(deployment.manifest_start_block),
               subgraphs |-> deployment_subgraphs_of(subgraphs, deployment_id),
               indexings |-> deployment_indexings_of(indexers_info, deployment, 0)])

\* The deployment kept with start block 0 when its manifest has none, as the
\* subgraphs table does.
deployment_of_start_block_default(indexers_info, transferred_deployments, subgraphs, deployment_id, deployment) ==
    LET deployment_indexings == deployment_indexings_of(indexers_info, deployment, 0)
        deployment_subgraphs == deployment_subgraphs_of(subgraphs, deployment_id)
    IN  IF deployment_id \in transferred_deployments THEN None
        ELSE IF deployment.manifest_network = None THEN None
        ELSE IF DOMAIN deployment_indexings = {} THEN None
        ELSE IF deployment_subgraphs = {} THEN None
        ELSE Some([id |-> deployment_id,
                   chain |-> Unwrap(deployment.manifest_network),
                   start_block |->
                      IF deployment.manifest_start_block = None THEN 0
                      ELSE Unwrap(deployment.manifest_start_block),
                   subgraphs |-> deployment_subgraphs,
                   indexings |-> deployment_indexings])

deployment_of(indexers_info, transferred_deployments, subgraphs, deployment_id, deployment) ==
    LET deployment_versions_behind_0 == 0
        deployment_indexings ==
            deployment_indexings_of(indexers_info, deployment, deployment_versions_behind_0)
        deployment_subgraphs == deployment_subgraphs_of(subgraphs, deployment_id)
    IN  IF deployment_id \in transferred_deployments THEN None
        ELSE IF deployment.manifest_network = None THEN None
        ELSE IF deployment.manifest_start_block = None THEN None
        ELSE IF DOMAIN deployment_indexings = {} THEN None
        ELSE IF deployment_subgraphs = {} THEN None
        ELSE Some([id |-> deployment_id,
                   chain |-> Unwrap(deployment.manifest_network),
                   start_block |-> Unwrap(deployment.manifest_start_block),
                   subgraphs |-> deployment_subgraphs,
                   indexings |-> deployment_indexings])

\* values is the order in which the subgraphs_info map iterates.
new_from(indexers_info, subgraphs_info, values) ==
    LET deployments_info == deployments_info_of(subgraphs_info, values)
        transferred_subgraphs == construct_transferred_subgraphs_table(subgraphs_info)
        transferred_deployments == construct_transferred_deployments_table(deployments_info)
        subgraph(s) == subgraph_of(indexers_info, transferred_subgraphs,
                                   transferred_deployments, s, subgraphs_info[s])
        subgraphs == [s \in {id \in DOMAIN subgraphs_info : subgraph(id) # None}
                         |-> Unwrap(subgraph(s))]
        deployment(d) == deployment_of(indexers_info, transferred_deployments, subgraphs,
                                       d, deployments_info[d])
        deployments == [d \in {id \in DOMAIN deployments_info : deployment(id) # None}
                           |-> Unwrap(deployment(d))]
    IN  [transferred_subgraphs |-> transferred_subgraphs,
         transferred_deployments |-> transferred_deployments,
         subgraphs |-> subgraphs,
         deployments |-> deployments]

\* The upstream records.  One indexer is known; allocations also name an
\* indexer that is not.  A deployment is healthy, lacks a manifest field, is
\* transferred to L2 with or without allocations, or has no allocation of a
\* known indexer.
Allocation(id, indexer) == [id |-> id, indexer |-> indexer]

DeploymentInfo(id, allocations, network, start_block, transferred_to_l2) ==
    [id |-> id, allocations |-> allocations, manifest_network |-> network,
     manifest_start_block |-> start_block, transferred_to_l2 |-> transferred_to_l2]

DeploymentInfos(id) ==
    LET own == Allocation(<<id, 1>>, "indexer1")
        more == Allocation(<<id, 2>>, "indexer1")
        unknown == Allocation(<<id, 3>>, "indexer2")
    IN  {DeploymentInfo(id, <<own>>, Some("mainnet"), Some(5), FALSE),
         DeploymentInfo(id, <<own, unknown, more>>, Some("mainnet"), Some(5), FALSE),
         DeploymentInfo(id, <<own>>, None, Some(5), FALSE),
         DeploymentInfo(id, <<own>>, Some("mainnet"), None, FALSE),
         DeploymentInfo(id, <<>>, Some("mainnet"), Some(5), TRUE),
         DeploymentInfo(id, <<own>>, Some("mainnet"), Some(5), TRUE),
         DeploymentInfo(id, <<>>, Some("mainnet"), Some(5), FALSE),
         DeploymentInfo(id, <<unknown>>, Some("mainnet"), Some(5), FALSE)}

DeploymentIds == {"QmA", "QmB"}
SubgraphIds == {"subgraph1", "subgraph2"}

IndexerInfo(deployments, with_largest, with_total) ==
    [id |-> "indexer1", indexer_agent_version |-> Version(1, 0, 0, None),
     deployments |-> deployments,
     largest_allocation |-> [d \in with_largest |-> <<d, 1>>],
     total_allocated_tokens |-> [d \in with_total |-> 1000],
     indexings_progress |-> [d \in {"QmA"} |-> [latest_block |-> 9, min_block |-> None]]]

IndexerInfos ==
    {IndexerInfo(healthy, DeploymentIds \ no_largest, DeploymentIds \ no_total) :
        healthy \in {DeploymentIds, {"QmA"}, {"QmB"}},
        no_largest \in {{}, {"QmB"}}, no_total \in {{}, {"QmA"}}}

IndexersInfos == {[i \in {"indexer1"} |-> info] : info \in IndexerInfos} \cup {<<>>}

\* Version lists, in descending order of the version numbers: up to
\* MaxVersions versions, each of one of the deployments.
MaxVersions == 3
VersionNumbers == {0, 1, 300}
VersionLists ==
    {vs \in SeqsUpTo(VersionNumbers \X DeploymentIds, MaxVersions) :
        \A i \in DOMAIN vs : i > 1 => vs[i][1] < vs[i - 1][1]}

SubgraphInfo(id, id_on_l2, version_list, infos) ==
    [id |-> id, id_on_l2 |-> id_on_l2,
     versions |-> [i \in DOMAIN version_list |->
                      [version |-> version_list[i][1],
                       deployment |-> infos[version_list[i][2]]]]]

\* The records in which every listing of a deployment carries the same
\* DeploymentInfo.  The second subgraph is absent, or lists one deployment.
Topologies ==
    {[indexers_info |-> indexers,
      subgraphs_info |->
         [s \in (IF second = <<>> THEN {"subgraph1"} ELSE SubgraphIds) |->
             IF s = "subgraph1" THEN SubgraphInfo(s, id_on_l2, first, infos)
             ELSE SubgraphInfo(s, None, second, infos)]] :
        indexers \in IndexersInfos,
        infos \in {f \in [DeploymentIds -> UNION {DeploymentInfos(d) : d \in DeploymentIds}] :
                      \A d \in DeploymentIds : f[d].id = d},
        id_on_l2 \in {None, Some("subgraph1-l2")},
        first \in VersionLists,
        second \in {<<>>, <<<<1, "QmA">>>>, <<<<1, "QmB">>>>}}

\* A record that one listing of a deployment may carry while the other
\* listings carry another: transferred to L2, another start block, no
\* manifest network, no allocation.
OtherDeploymentInfos(id) ==
    LET own == Allocation(<<id, 1>>, "indexer1")
    IN  {DeploymentInfo(id, <<>>, Some("mainnet"), Some(5), TRUE),
         DeploymentInfo(id, <<own>>, Some("mainnet"), Some(7), FALSE),
         DeploymentInfo(id, <<own>>, None, Some(5), FALSE),
         DeploymentInfo(id, <<>>, Some("mainnet"), Some(5), FALSE)}

\* The indexers next to which one listing carries another record: the
\* indexer with every entry, the one that lists "QmA" only as healthy, the
\* one without a total of allocated tokens for "QmA".
RelistedIndexersInfos ==
    {[i \in {"indexer1"} |-> info] :
        info \in {IndexerInfo(DeploymentIds, DeploymentIds, DeploymentIds),
                  IndexerInfo({"QmA"}, DeploymentIds, DeploymentIds),
                  IndexerInfo(DeploymentIds, DeploymentIds, {"QmB"})}}

\* The records of a topology with one listing replaced.
Relistings(t) ==
    IF t.indexers_info \notin RelistedIndexersInfos THEN {}
    ELSE UNION {UNION {{[t EXCEPT !.subgraphs_info[s].versions[i].deployment = other] :
                           other \in OtherDeploymentInfos(
                                         t.subgraphs_info[s].versions[i].deployment.id)} :
                         i \in DOMAIN t.subgraphs_info[s].versions} :
                  s \in DOMAIN t.subgraphs_info}

\* The orders in which a HashMap of these keys may iterate.
IterationOrders(keys) ==
    {o \in [1..Cardinality(keys) -> keys] :
        \A i, j \in DOMAIN o : i # j => o[i] # o[j]}

NoTopology == [indexers_info |-> <<>>, subgraphs_info |-> <<>>, values |-> <<>>]

\* The refresh builds the snapshot of the records it was given.
NewFrom ==
    /\ snapshot = None
    /\ snapshot' = Some(new_from(topology.indexers_info, topology.subgraphs_info,
                                 topology.values))
    /\ UNCHANGED topology
    /\ UNCHANGED beside_snapshot

NextSnapshot == NewFrom

(***************************************************************************)
(* Initial states and specifications of the components.                    *)
(***************************************************************************)
Init ==
    /\ ReporterInit
    /\ HorizonTrackerNew(MaxTrusted)
    /\ SignerInit
    /\ ClientInit
    /\ PoiResolverNew
    /\ topology = NoTopology
    /\ snapshot = None

\* Every configuration of the tracker, the empty list included.
HorizonInit ==
    /\ ReporterInit
    /\ \E n \in 0..MaxTrusted : HorizonTrackerNew(n)
    /\ SignerInit
    /\ ClientInit
    /\ PoiResolverNew
    /\ topology = NoTopology
    /\ snapshot = None

SpecHorizon == HorizonInit /\ [][NextHorizon]_vars

SpecSigner == Init /\ [][NextSigner]_vars

SpecClient == Init /\ [][NextClient]_vars

SpecBlockError == Init /\ [][NextBlockError]_vars

\* A resolver built by new or by with_timeout.
PoiInit ==
    /\ ReporterInit
    /\ HorizonTrackerNew(MaxTrusted)
    /\ SignerInit
    /\ ClientInit
    /\ PoiResolverNew \/ \E timeout \in Timeouts : PoiResolverWithTimeout(timeout)
    /\ topology = NoTopology
    /\ snapshot = None

SpecPoi == PoiInit /\ [][NextPoi]_vars

\* Every set of upstream records, in every iteration order of the subgraphs.
SnapshotInit ==
    /\ ReporterInit
    /\ HorizonTrackerNew(MaxTrusted)
    /\ SignerInit
    /\ ClientInit
    /\ PoiResolverNew
    /\ \E t \in Topologies : \E u \in {t} \cup Relistings(t) :
          \E values \in IterationOrders(DOMAIN u.subgraphs_info) :
              topology = [indexers_info |-> u.indexers_info,
                          subgraphs_info |-> u.subgraphs_info,
                          values |-> values]
    /\ snapshot = None

SpecSnapshot == SnapshotInit /\ [][NextSnapshot]_vars

(***************************************************************************)
(* The ClientRequests the environment sends.                               *)
(***************************************************************************)
Deployments == {"QmA", "QmB"}
Indexers == {"indexer1"}

Attestation(d) == [deployment |-> d]
ErrorResult == [ok |-> FALSE, err |-> "timeout"]
SuccessResult(len, att) == [ok |-> TRUE, original_response |-> len, attestation |-> att]

SmallLen == 100
PayloadLens == {MAX_PAYLOAD_BYTES, MAX_PAYLOAD_BYTES + 1}


IndexerRequest(indexer, deployment, receipt, result, request) ==
    [indexer |-> indexer, deployment |-> deployment, receipt |-> receipt,
     result |-> result, request |-> request]

\* Attested successes only, with small payloads.
AttestedRequests ==
    {IndexerRequest(i, d, V2Sample, SuccessResult(SmallLen, Some(Attestation(d))), SmallLen) :
        i \in Indexers, d \in Deployments}

\* Errors, successes without attestation and attested successes.
PlainRequests ==
    {IndexerRequest(i, d, V2Sample, r, SmallLen) :
        i \in Indexers, d \in Deployments,
        r \in {ErrorResult, SuccessResult(SmallLen, None)}}
    \cup AttestedRequests

(***************************************************************************)
(* The reporting pipeline under a coarse clock.                            *)
(***************************************************************************)
EnqueuePlain ==
    \E irs \in SeqsUpTo(PlainRequests, MaxIndexerRequests) :
        Enqueue("success", irs, MaxRequests)

Elapse == Tick(EVICTION_SECS + 1)


Next ==
    \/ Elapse
    \/ EnqueuePlain
    \/ DropSenders
    \/ Recv
    \/ TaskEnd

Spec == Init /\ [][Next]_vars

(***************************************************************************)
(* The scheduler runs the spawned task whenever it can take a step.        *)
(***************************************************************************)
\* The steps of Recv as the channel shows them: within Next only Recv takes
\* the head off the channel.
RecvStep == task = "running" /\ chan # <<>> /\ chan' = Tail(chan)

SpecFair == Spec /\ WF_chan(RecvStep) /\ WF_vars(TaskEnd)

(***************************************************************************)
(* The sampler under a clock of seconds.                                   *)
(***************************************************************************)
EnqueueAttested ==
    \E ir \in AttestedRequests :
        Enqueue("success", <<ir>>, MaxSamplerRequests)

Second == Tick(1)

NextSampler ==
    \/ Second
    \/ EnqueueAttested
    \/ DropSenders
    \/ Recv
    \/ TaskEnd

SpecSampler == Init /\ [][NextSampler]_vars

(***************************************************************************)
(* The content of the records: receipts of both versions, payloads around  *)
(* the 100,000-byte limit.                                                 *)
(***************************************************************************)
SampleReceipts ==
    {V1Receipt(a, 1000, 5, 42) : a \in {Bytes(ADDRESS_LEN, 1)}}
    \cup {V2Receipt(c, Bytes(ADDRESS_LEN, 1), Bytes(ADDRESS_LEN, 2),
                    Bytes(ADDRESS_LEN, 3), 1000, 5, 42) :
             c \in {Bytes(B256_LEN - ADDRESS_LEN, h) \o Bytes(ADDRESS_LEN, 2) : h \in {0, 7}}}

\* The results an indexer request for deployment d can carry.
DetailResults(d) ==
    {ErrorResult}
    \cup {SuccessResult(m, a) : m \in PayloadLens, a \in {None, Some(Attestation(d))}}

DetailRequests ==
    UNION {{IndexerRequest(i, d, rc, r, n) :
               i \in Indexers, rc \in SampleReceipts, n \in PayloadLens,
               r \in DetailResults(d)} : d \in Deployments}

EnqueueDetail ==
    \E irs \in SeqsUpTo(DetailRequests, MaxIndexerRequests),
       result \in {"success", "bad indexers"} :
        Enqueue(result, irs, MaxDetailRequests)

NextDetail ==
    \/ EnqueueDetail
    \/ DropSenders
    \/ Recv
    \/ TaskEnd

SpecDetail == Init /\ [][NextDetail]_vars

(***************************************************************************)
(* Properties of the attestation sampler.                                  *)
(***************************************************************************)
CallIdx == 1..Len(calls)
SendIdx == 1..Len(sends)

\* Calls i < j of should_sample for one pair that both returned true.
BothSampled(i, j) ==
    /\ i < j
    /\ calls[i].pair = calls[j].pair
    /\ calls[i].ret
    /\ calls[j].ret

\* C1 as stated: for every (deployment, indexer) pair, any interval of 10
\* seconds contains at most one call of should_sample that returns true.
C1_AnyIntervalOneSample ==
    \A i, j \in CallIdx :
        BothSampled(i, j) => calls[j].now - calls[i].now > EVICTION_SECS

\* C1 amended: two calls for one pair that return true are separated by an
\* eviction, evictions are more than 10 seconds apart, and so any interval
\* of 10 seconds contains at most two calls for the pair that return true.
C1_OneSamplePerEvictionWindow ==
    /\ \A i, j \in CallIdx :
          BothSampled(i, j) => calls[j].window - calls[i].window > EVICTION_SECS
    /\ \A i, j, k \in CallIdx :
          BothSampled(i, j) /\ BothSampled(j, k)
              => calls[k].now - calls[i].now > EVICTION_SECS

\* Two calls for one pair return true less than 10 seconds apart, and a
\* third call for the pair returns false.
C1_Witness ==
    \E i, j, k \in CallIdx :
        /\ BothSampled(i, j)
        /\ calls[j].now - calls[i].now < EVICTION_SECS
        /\ calls[k].pair = calls[i].pair
        /\ ~calls[k].ret

\* Three requests, each with one attested indexer request for the same
\* pair, were reported at t, t + 2 and t + 12, and every send was accepted.
ThreeReports(t) ==
    /\ Len(received) = 3
    /\ Len(calls) = 3
    /\ \A k \in SendIdx : sends[k].accepted
    /\ calls[2].pair = calls[1].pair
    /\ calls[3].pair = calls[1].pair
    /\ calls[1].now = t
    /\ calls[2].now = t + 2
    /\ calls[3].now = t + 12

\* The requests that got an attestation record.
Attested == {sends[k].by[1] : k \in {n \in SendIdx : sends[n].topic = "attestations"}}
AttestationCount == Cardinality({n \in SendIdx : sends[n].topic = "attestations"})

\* C2 as stated: reports of one pair at t, t + 2 and t + 12 give two
\* attestation records, for the first and for the third report, whatever
\* time t has passed since the sampler was created.
C2_FirstAndThird ==
    \A t \in 0..MaxTime :
        ThreeReports(t) => AttestationCount = 2 /\ Attested = {1, 3}

\* C2 amended: the reports give exactly two attestation records; the first
\* report always gets one; the other one goes to the third report, unless
\* t is more than 8 s and at most 10 s after the creation of the sampler:
\* then the second report gets it and the third gets none.
C2_TwoRecords ==
    \A t \in 0..MaxTime :
        ThreeReports(t) =>
            /\ AttestationCount = 2
            /\ Attested = IF t > EVICTION_SECS - 2 /\ t <= EVICTION_SECS
                          THEN {1, 2} ELSE {1, 3}

\* The three reports happened, the first between 8 s and 10 s after creation.
C2_Witness ==
    \E t \in 0..MaxTime :
        ThreeReports(t) /\ t > EVICTION_SECS - 2 /\ t <= EVICTION_SECS

(***************************************************************************)
(* Properties of the reporting task.                                       *)
(***************************************************************************)
\* The last message of a payload: the one encoded for this record.
LastMessage(payload) == payload[Len(payload)]

\* The sends of the `queries` record of request r.
QuerySends(r) ==
    {k \in SendIdx : sends[k].topic = "queries" /\ sends[k].by[1] = r}

\* The accepted records whose payload holds the ClientQuery message of r.
RecordsWithQuery(r) ==
    {k \in SendIdx :
        /\ sends[k].accepted
        /\ \E m \in 1..Len(sends[k].payload) :
              /\ sends[k].payload[m].msg = "ClientQuery"
              /\ sends[k].payload[m].query_id = r}

\* C3: every ClientRequest the task has received was sent to the `queries`
\* topic exactly once, with its own ClientQuery message, whatever its
\* indexer requests are; a request not yet received was not sent; and no
\* ClientQuery message is in more than one accepted record.
C3_OneQueriesRecord ==
    \A r \in 1..next_id :
        /\ IF r <= Len(received)
           THEN /\ Cardinality(QuerySends(r)) = 1
                /\ \A k \in QuerySends(r) :
                      LastMessage(sends[k].payload) = ClientQueryProtobuf(received[r])
           ELSE QuerySends(r) = {}
        /\ Cardinality(RecordsWithQuery(r)) <= 1

\* A request with an indexer error and with no indexer request at all have
\* both been reported, each with its accepted `queries` record.
C3_Witness ==
    \E r, q \in 1..Len(received) :
        /\ received[r].indexer_requests = <<>>
        /\ \E i \in 1..Len(received[q].indexer_requests) :
              ~received[q].indexer_requests[i].result.ok
        /\ \A k \in QuerySends(r) \cup QuerySends(q) : sends[k].accepted

\* C4: among the sends of one ClientRequest the `queries` record comes
\* first, and the attestation records follow in the order of its
\* indexer_requests, each carrying the attestation of its indexer request.
C4_QueriesThenAttestations ==
    \A k, l \in SendIdx :
        /\ sends[k].topic = "attestations" =>
              /\ sends[k].by[2] >= 1
              /\ LastMessage(sends[k].payload).subgraph_deployment =
                    received[sends[k].by[1]].indexer_requests[sends[k].by[2]].deployment
        /\ (k < l /\ sends[k].by[1] = sends[l].by[1]) =>
              /\ sends[l].topic = "attestations"
              /\ sends[k].topic = "attestations" => sends[k].by[2] < sends[l].by[2]

\* One request got its `queries` record and two attestation records.
C4_Witness ==
    \E k \in SendIdx :
        /\ k + 2 <= Len(sends)
        /\ sends[k].topic = "queries"
        /\ sends[k + 1].topic = "attestations"
        /\ sends[k + 2].topic = "attestations"
        /\ sends[k + 2].accepted

\* C5: the task ends only when every sender is dropped and the channel is
\* empty, never because a report failed, and every ClientRequest put on the
\* channel is eventually received and reported.
C5_TaskSurvivesErrors ==
    /\ [](task = "ended" => ~senders /\ chan = <<>>)
    /\ \A r \in 1..MaxRequests : (next_id >= r) ~> (QuerySends(r) # {})

\* A send of one request was refused and a later request was reported.
C5_Witness ==
    \E k, l \in SendIdx :
        /\ k < l
        /\ ~sends[k].accepted
        /\ sends[k].by[1] < sends[l].by[1]
        /\ sends[l].accepted

(***************************************************************************)
(* Properties of the content of the records.                               *)
(***************************************************************************)
\* The indexer requests of the received ClientRequests, as <<id, index>>.
ReportedRequests ==
    UNION {{<<r, i>> : i \in 1..Len(received[r].indexer_requests)} :
              r \in 1..Len(received)}
IndexerRequestAt(ri) == received[ri[1]].indexer_requests[ri[2]]

\* The sampler returned true for the indexer request.
Sampled(ri) == \E k \in CallIdx : calls[k].by = ri /\ calls[k].ret

\* The attestation records handed to the producer for the indexer request.
AttestationSends(ri) ==
    {k \in SendIdx : sends[k].topic = "attestations" /\ sends[k].by = ri}

\* C6 as stated: an attestation record is emitted for an indexer request if
\* and only if it was sampled, its result carries an attestation and both
\* its request and its response are at most 100,000 bytes.
C6_EmittedIffSmall ==
    \A ri \in ReportedRequests :
        AttestationSends(ri) # {} <=>
            /\ Sampled(ri)
            /\ HasAttestation(IndexerRequestAt(ri))
            /\ IndexerRequestAt(ri).request <= MAX_PAYLOAD_BYTES
            /\ IndexerRequestAt(ri).result.original_response <= MAX_PAYLOAD_BYTES

\* C6 amended: an attestation record is handed to the producer for an
\* indexer request if and only if it was sampled and its result carries an
\* attestation, whatever the sizes; the record has the `request` field if
\* and only if the request is at most 100,000 bytes, and the `response`
\* field if and only if the response is.
C6_EmittedIffSampledAndAttested ==
    \A ri \in ReportedRequests :
        /\ AttestationSends(ri) # {} <=>
              Sampled(ri) /\ HasAttestation(IndexerRequestAt(ri))
        /\ Cardinality(AttestationSends(ri)) <= 1
        /\ \A k \in AttestationSends(ri) :
              LET m == LastMessage(sends[k].payload)
              IN  /\ m.msg = "Attestation"
                  /\ IsSome(m.request) <=>
                        IndexerRequestAt(ri).request <= MAX_PAYLOAD_BYTES
                  /\ IsSome(m.response) <=>
                        IndexerRequestAt(ri).result.original_response
                            <= MAX_PAYLOAD_BYTES

\* An attestation record was sent without its oversized request, and one
\* with a request and a response of exactly 100,000 bytes.
C6_Witness ==
    \E ri, rj \in ReportedRequests :
        /\ IndexerRequestAt(ri).request > MAX_PAYLOAD_BYTES
        /\ IndexerRequestAt(rj).request = MAX_PAYLOAD_BYTES
        /\ AttestationSends(ri) # {}
        /\ \E k \in AttestationSends(rj) :
              /\ IsSome(LastMessage(sends[k].payload).request)
              /\ IsSome(LastMessage(sends[k].payload).response)

\* The ClientQuery messages of the payloads handed to the producer.
ClientQueryMessages ==
    UNION {{sends[k].payload[m] : m \in {n \in 1..Len(sends[k].payload) :
                                           sends[k].payload[n].msg = "ClientQuery"}} :
              k \in SendIdx}

\* C7: in every IndexerQueryProtobuf exactly one of allocation and
\* collection is set: allocation, the 20 bytes of the receipt's allocation
\* id, for a v1 receipt; collection, the 32 bytes of the receipt's
\* collection id, for a v2 receipt.
C7_AllocationXorCollection ==
    \A msg \in ClientQueryMessages :
        \A i \in 1..Len(msg.indexer_queries) :
            LET q  == msg.indexer_queries[i]
                rc == received[msg.query_id].indexer_requests[i].receipt
            IN  /\ IsSome(q.allocation) # IsSome(q.collection)
                /\ IsSome(q.allocation) <=> rc.ver = "V1"
                /\ IsSome(q.collection) <=> rc.ver = "V2"
                /\ rc.ver = "V1" =>
                      /\ Unwrap(q.allocation) = rc.allocation_id
                      /\ Len(Unwrap(q.allocation)) = ADDRESS_LEN
                /\ rc.ver = "V2" =>
                      /\ Unwrap(q.collection) = rc.collection_id
                      /\ Len(Unwrap(q.collection)) = B256_LEN

\* A ClientQuery message with a v1 and a v2 indexer query was sent.
C7_Witness ==
    \E msg \in ClientQueryMessages :
        /\ Len(msg.indexer_queries) = 2
        /\ IsSome(msg.indexer_queries[1].allocation)
        /\ IsSome(msg.indexer_queries[2].collection)


(***************************************************************************)
(* Horizon tracker claims.                                                 *)
(***************************************************************************)
Consulted == check.consulted

\* The query of a trusted indexer succeeded: the request succeeded, the body
\* parsed, it has no `errors` field and `data` is present.
QuerySucceeded(response) ==
    /\ response.kind = "parsed"
    /\ response.errors = None
    /\ response.data # None

SucceededAt == {i \in 1..Len(Consulted) : QuerySucceeded(Consulted[i].response)}

\* C8: after check_horizon_status, horizon_active is the answer of the first
\* trusted indexer, in configured order, whose query succeeded, and no later
\* indexer is consulted; when every trusted indexer fails, or there is none,
\* horizon_active keeps the value it had and the monitor awaits the next tick.
C8_FirstSuccessIsAuthoritative ==
    /\ Len(Consulted) <= Len(trusted_indexers)
    /\ \A i \in 1..Len(Consulted) :
          /\ Consulted[i].indexer = trusted_indexers[i]
          /\ Consulted[i].result.ok <=> QuerySucceeded(Consulted[i].response)
    /\ check.outcome = "pending" =>
          /\ SucceededAt = {}
          /\ horizon_active = check.began_with
    /\ check.outcome \in {"ok", "err"} =>
          /\ monitor.pc = "waiting"
          /\ IF SucceededAt # {}
             THEN /\ check.outcome = "ok"
                  /\ SucceededAt = {Len(Consulted)}
                  /\ horizon_active = Consulted[Len(Consulted)].result.answer
             ELSE /\ check.outcome = "err"
                  /\ Len(Consulted) = Len(trusted_indexers)
                  /\ horizon_active = check.began_with

\* The first trusted indexer failed, the second answered "inactive" while
\* the flag was set by an earlier check.
C8_Witness ==
    /\ check.outcome = "ok"
    /\ Len(Consulted) = 2
    /\ ~QuerySucceeded(Consulted[1].response)
    /\ check.began_with = TRUE
    /\ horizon_active = FALSE

ActiveContracts(contracts) == Len(SelectSeq(contracts, LAMBDA c : c.active))

ActivationPredicate(graph_networks) ==
    \E i \in 1..Len(graph_networks) :
        LET collections == ActiveContracts(graph_networks[i].tap_collection_contracts)
            allocations == ActiveContracts(graph_networks[i].tap_allocation_contracts)
        IN  /\ collections >= 1
            /\ allocations = 0 \/ collections >= allocations

\* C9: a successful status query answers active exactly when some returned
\* graph network has at least one active collection contract and either no
\* active allocation contract or at least as many active collection as active
\* allocation contracts; without any graph network the answer is inactive.
C9_ActivationPredicate ==
    \A i \in 1..Len(Consulted) :
        Consulted[i].result.ok =>
            LET graph_networks == Unwrap(Consulted[i].response.data).graph_networks
            IN  /\ Consulted[i].result.answer <=> ActivationPredicate(graph_networks)
                /\ graph_networks = <<>> => ~Consulted[i].result.answer

\* An answer "active" from two networks: the first has one active collection
\* contract against two active allocation contracts, the second two of each.
C9_Witness ==
    /\ Consulted # <<>>
    /\ LET last == Consulted[Len(Consulted)]
       IN  /\ last.result.ok
           /\ last.result.answer
           /\ LET graph_networks == Unwrap(last.response.data).graph_networks
              IN  /\ Len(graph_networks) = 2
                  /\ ActiveContracts(graph_networks[1].tap_collection_contracts) = 1
                  /\ ActiveContracts(graph_networks[1].tap_allocation_contracts) = 2
                  /\ ActiveContracts(graph_networks[2].tap_collection_contracts) = 2
                  /\ ActiveContracts(graph_networks[2].tap_allocation_contracts) = 2

(***************************************************************************)
(* Receipt signer claims.                                                  *)
(***************************************************************************)
Low20(c) == [i \in 1..ADDRESS_LEN |-> c[Len(c) - ADDRESS_LEN + i]]

\* C10: create_receipt_with_strategy returns, for PreHorizon, a v1 receipt
\* whose allocation() is the low 20 bytes of C and whose value() is the fee;
\* for PostHorizon a v2 receipt whose collection() is C, whose value() is the
\* fee and whose payer(), data_service() and service_provider() are the
\* given addresses.  It returns a receipt whenever the timestamp fits and the
\* signer signs.
C10_StrategySelectsVersion ==
    last_receipt # None =>
        LET call == Unwrap(last_receipt)
        IN  call.method = "create_receipt_with_strategy" =>
              /\ call.result.ok <=> (IsSome(call.timestamp) /\ call.signed)
              /\ (call.result.ok /\ call.strategy = PreHorizon) =>
                    /\ is_v1(call.result.receipt)
                    /\ ~is_v2(call.result.receipt)
                    /\ allocation(call.result.receipt) = Low20(call.id)
                    /\ value(call.result.receipt) = call.fee
              /\ (call.result.ok /\ call.strategy = PostHorizon) =>
                    /\ is_v2(call.result.receipt)
                    /\ ~is_v1(call.result.receipt)
                    /\ collection(call.result.receipt) = call.id
                    /\ value(call.result.receipt) = call.fee
                    /\ payer(call.result.receipt) = Some(call.payer)
                    /\ data_service(call.result.receipt) = Some(call.data_service)
                    /\ service_provider(call.result.receipt) = Some(call.service_provider)

\* A PreHorizon receipt for a collection id whose high 12 bytes are not zero.
C10_Witness ==
    /\ last_receipt # None
    /\ LET call == Unwrap(last_receipt)
       IN  /\ call.method = "create_receipt_with_strategy"
           /\ call.strategy = PreHorizon
           /\ call.result.ok
           /\ call.id[1] # 0
           /\ call.fee = 1000


LastCall == Unwrap(last_receipt)

CreationMethods ==
    {"create_receipt_with_strategy", "create_receipt_v1", "create_receipt",
     "create_receipt_for_indexer", "create_v1_for_processing"}

\* The last call created a receipt.
Created ==
    /\ last_receipt # None
    /\ LastCall.method \in CreationMethods
    /\ LastCall.result.ok

High12(c) == [i \in 1..(B256_LEN - ADDRESS_LEN) |-> c[i]]
ZeroBytes(n) == [i \in 1..n |-> 0]

\* C11 as stated: for every v2 receipt, widening its truncated collection id
\* gives back the collection id, whatever the 32 bytes signed.
C11_WideningRestores ==
    (Created /\ is_v2(LastCall.result.receipt)) =>
        CollectionIdFrom(allocation(LastCall.result.receipt))
            = collection(LastCall.result.receipt)

\* C11: for every v2 receipt, widening its truncated collection id gives the
\* low 20 bytes of the collection id under 12 zero bytes; this is the
\* collection id exactly when its high 12 bytes are zero.
C11_WideningRestoresLow20 ==
    (Created /\ is_v2(LastCall.result.receipt)) =>
        LET r == LastCall.result.receipt
            widened == CollectionIdFrom(allocation(r))
        IN  /\ Len(widened) = B256_LEN
            /\ Low20(widened) = Low20(collection(r))
            /\ High12(widened) = ZeroBytes(B256_LEN - ADDRESS_LEN)
            /\ (widened = collection(r))
                  <=> (High12(collection(r)) = ZeroBytes(B256_LEN - ADDRESS_LEN))

\* A v2 receipt signed with a collection id whose high bytes are not zero.
C11_Witness ==
    /\ Created
    /\ is_v2(LastCall.result.receipt)
    /\ collection(LastCall.result.receipt)[1] # 0

\* C12: payer(), data_service() and service_provider() are None for every v1
\* receipt and Some of the address given at signing for every v2 receipt.
C12_V2FieldsOnlyForV2 ==
    Created =>
        LET r == LastCall.result.receipt
        IN  /\ is_v1(r) =>
                  /\ payer(r) = None
                  /\ data_service(r) = None
                  /\ service_provider(r) = None
            /\ is_v2(r) =>
                  /\ payer(r) = Some(LastCall.payer)
                  /\ data_service(r) = Some(LastCall.data_service)
                  /\ service_provider(r) = Some(LastCall.service_provider)

\* A v2 receipt whose payer and data service differ.
C12_Witness ==
    /\ Created
    /\ is_v2(LastCall.result.receipt)
    /\ LastCall.method = "create_receipt"
    /\ LastCall.payer # LastCall.data_service


\* The last call signed a receipt for a request to an indexer of the snapshot.
SignedForIndexer ==
    /\ Created
    /\ "indexer" \in DOMAIN LastCall

\* C14: an indexer whose agent version is below 1.0.0-alpha, that is with
\* scalar_tap_support = false in the snapshot, is never signed a v2 receipt,
\* whatever the horizon strategy.
C14_NoV2WithoutTapSupport ==
    (SignedForIndexer /\ ~LastCall.indexer.scalar_tap_support) =>
        ~is_v2(LastCall.result.receipt)

\* The capability of the snapshot is the comparison with 1.0.0-alpha, and the
\* one path that takes the capability signs v2 exactly for capable indexers.
C14_ForIndexerFollowsSupport ==
    SignedForIndexer =>
        /\ LastCall.indexer.scalar_tap_support
              <=> LastCall.indexer.indexer_agent_version
                     \in {Version(1, 0, 0, Some(1)), Version(1, 0, 0, Some(2)),
                          Version(1, 0, 0, None), Version(1, 1, 0, None)}
        /\ LastCall.method = "create_receipt_for_indexer" =>
              (is_v2(LastCall.result.receipt) <=> LastCall.indexer.scalar_tap_support)


(***************************************************************************)
(* Indexer client claims.                                                  *)
(***************************************************************************)
\* query_indexer has handed a request to the HTTP client.
RequestSent ==
    /\ indexer_query.pc \in {"sent", "reading", "done"}
    /\ indexer_query.request # None

SentRequest == Unwrap(indexer_query.request)

\* c is the i-th character of the hex encoding of bytes.
HexCharAt(bytes, i, c) ==
    \E k \in 1..Len(bytes) :
        \/ i = 2 * k - 1 /\ c = bytes[k] \div 16
        \/ i = 2 * k /\ c = bytes[k] % 16

\* C15: for a receipt whose hex encoding has N characters, the Scalar-Receipt
\* header is exactly the first N - 64 characters of the encoding, and the
\* body of the request is the query string, unchanged.
C15_HeaderIsFirstNMinus64 ==
    RequestSent =>
        LET N == 2 * Len(indexer_query.receipt)
        IN  /\ Len(SentRequest.scalar_receipt) = N - 64
            /\ \A i \in 1..(N - 64) :
                  HexCharAt(indexer_query.receipt, i, SentRequest.scalar_receipt[i])
            /\ SentRequest.body = indexer_query.query

\* graph-gateway has sent a request for a receipt of 34 bytes.
C15_Witness ==
    /\ RequestSent
    /\ indexer_query.client = "graph-gateway"
    /\ Len(indexer_query.receipt) = 34
    /\ Len(SentRequest.scalar_receipt) = 4

\* C16 as stated: the header is the hex encoding of the receipt with its last
\* 32 hex characters (16 bytes) stripped.
C16_Strips32HexChars ==
    RequestSent =>
        LET N == 2 * Len(indexer_query.receipt)
        IN  /\ Len(SentRequest.scalar_receipt) = N - 32
            /\ \A i \in 1..(N - 32) :
                  HexCharAt(indexer_query.receipt, i, SentRequest.scalar_receipt[i])

\* C16: the header is the hex encoding of the receipt without its last 32
\* bytes, that is with its last 64 hex characters stripped.
C16_Strips32Bytes ==
    RequestSent =>
        LET kept == SubSeq(indexer_query.receipt, 1, Len(indexer_query.receipt) - 32)
        IN  /\ Len(SentRequest.scalar_receipt) = 2 * Len(kept)
            /\ \A i \in 1..(2 * Len(kept)) :
                  HexCharAt(kept, i, SentRequest.scalar_receipt[i])

\* A request for a receipt of 33 bytes: one byte, two characters, is sent.
C16_Witness ==
    /\ RequestSent
    /\ Len(indexer_query.receipt) = 33
    /\ Len(SentRequest.scalar_receipt) = 2

\* graph-gateway's query_indexer has returned after a response or an error
\* of the transport.
GatewayAnswered ==
    /\ indexer_query.pc = "done"
    /\ indexer_query.client = "graph-gateway"
    /\ indexer_query.request # None

\* C17: graph-gateway's query_indexer returns UnattestableError(status) for
\* every 5xx response, whatever its body; Timeout for a transport timeout;
\* Other for every other transport error and every other error status.
C17_ErrorClassification ==
    GatewayAnswered =>
        LET response == indexer_query.response
            result == indexer_query.result
        IN  /\ (response.kind = "http" /\ response.status \in 500..599) =>
                  /\ ~result.ok
                  /\ result.err = [kind |-> "UnattestableError",
                                   status |-> response.status]
            /\ response.kind = "timeout" =>
                  /\ ~result.ok
                  /\ result.err = [kind |-> "Timeout"]
            /\ (\/ response.kind = "connect"
                \/ response.kind = "http" /\ response.status \in 400..499) =>
                  /\ ~result.ok
                  /\ result.err.kind = "Other"

\* A 503 without a JSON body.
C17_Witness ==
    /\ GatewayAnswered
    /\ indexer_query.response.kind = "http"
    /\ indexer_query.response.status = 503
    /\ ~indexer_query.response.body.json
    /\ indexer_query.result.err.kind = "UnattestableError"

\* graph-gateway got a successful HTTP response with a JSON payload.
GatewayPayload ==
    /\ GatewayAnswered
    /\ indexer_query.response.kind = "http"
    /\ indexer_query.response.status \in 200..299
    /\ indexer_query.response.body.json

\* C18: for a successful response whose payload has no graphQLResponse the
\* result is Other(e), e the payload's error string when present and
\* "GraphQL response not found" otherwise; with graphQLResponse the result is
\* a success with the HTTP status, that body and the optional attestation.
C18_MissingGraphQLResponse ==
    GatewayPayload =>
        LET payload == indexer_query.response.body.payload
            result == indexer_query.result
        IN  IF payload.graphQLResponse = None
            THEN /\ ~result.ok
                 /\ result.err.kind = "Other"
                 /\ result.err.msg = IF payload.error # None THEN payload.error[1]
                                     ELSE "GraphQL response not found"
            ELSE /\ result.ok
                 /\ result.status = indexer_query.response.status
                 /\ result.payload.body = payload.graphQLResponse[1]
                 /\ result.payload.attestation = payload.attestation

\* A 200 whose payload has an error string and no graphQLResponse.
C18_Witness ==
    /\ GatewayPayload
    /\ indexer_query.response.body.payload.graphQLResponse = None
    /\ indexer_query.response.body.payload.error # None

\* C19 as stated: a response whose JSON parsed but lacks graphQLResponse is
\* classified as UnexpectedPayload.
C19_MissingFieldsUnexpectedPayload ==
    (GatewayPayload /\ indexer_query.response.body.payload.graphQLResponse = None) =>
        /\ ~indexer_query.result.ok
        /\ indexer_query.result.err.kind = "UnexpectedPayload"

\* C19: query_indexer never returns UnexpectedPayload; a response whose JSON
\* parsed but lacks graphQLResponse is classified as Other.
C19_MissingFieldsOther ==
    /\ (indexer_query.pc = "done" /\ ~indexer_query.result.ok) =>
          indexer_query.result.err.kind \in {"UnattestableError", "Timeout", "Other"}
    /\ (GatewayPayload /\ indexer_query.response.body.payload.graphQLResponse = None) =>
          /\ ~indexer_query.result.ok
          /\ indexer_query.result.err.kind = "Other"

\* A 200 whose payload has neither graphQLResponse nor error.
C19_Witness ==
    /\ GatewayPayload
    /\ indexer_query.response.body.payload.graphQLResponse = None
    /\ indexer_query.response.body.payload.error = None
    /\ ~indexer_query.result.ok

(***************************************************************************)
(* check_block_error claims.                                               *)
(***************************************************************************)
Occurs(str, pat, i) ==
    /\ i >= 1
    /\ i + Len(pat) - 1 <= Len(str)
    /\ \A k \in 1..Len(pat) : str[i + k - 1] = pat[k]

Occurrences(str, pat) == {i \in 1..Len(str) : Occurs(str, pat, i)}

Least(S) == CHOOSE i \in S : \A j \in S : i <= j

\* digits, without leading zeros, denote a number that is at most u64::MAX.
AtMostU64Max(digits) ==
    \/ Len(digits) < 20
    \/ /\ Len(digits) = 20
       /\ \/ digits = U64_MAX
          \/ \E k \in 1..20 :
                /\ \A j \in 1..(k - 1) : digits[j] = U64_MAX[j]
                /\ digit_value(digits[k]) < digit_value(U64_MAX[k])

\* The u64 that a token denotes, None when it denotes none.
TokenValue(token) ==
    LET digits == IF token # <<>> /\ token[1] = "+"
                  THEN SubSeq(token, 2, Len(token)) ELSE token
        nonzero == {k \in 1..Len(digits) : digits[k] # "0"}
        number == IF nonzero = {} THEN <<"0">>
                  ELSE SubSeq(digits, Least(nonzero), Len(digits))
    IN  IF /\ digits # <<>>
           /\ \A k \in 1..Len(digits) : digits[k] \in {"0", "1", "2", "3", "4", "5", "6", "7", "8", "9"}
           /\ AtMostU64Max(number)
        THEN <<number>>
        ELSE <<>>

\* The u64 that follows the first occurrence of prefix in err: None when
\* the prefix is absent, when no space follows, or when the token up to the
\* space is not a u64.
NumberAfter(err, prefix) ==
    IF Occurrences(err, prefix) = {} THEN <<>>
    ELSE LET start == Least(Occurrences(err, prefix)) + Len(prefix)
             spaces == {q \in start..Len(err) : err[q] = " "}
         IN  IF spaces = {} THEN <<>>
             ELSE TokenValue(SubSeq(err, start, Least(spaces) - 1))

\* C20: check_block_error(err) is Ok exactly when err does not contain
\* "Failed to decode `block"; otherwise it is a BlockError whose unresolved
\* is the u64 after the first "and data for block number " and whose
\* reported_status is the u64 after the first "has only indexed up to block
\* number ", each None when the prefix is absent, when the number is not
\* followed by a space, or when the token is not a u64.
C20_CheckBlockError ==
    block_error_check # None =>
        LET err == block_error_check[1].err
            result == block_error_check[1].result
        IN  /\ result.ok <=> Occurrences(err, FAILED_TO_DECODE_BLOCK) = {}
            /\ ~result.ok =>
                  /\ result.err.unresolved = NumberAfter(err, UNRESOLVED_PREFIX)
                  /\ result.err.reported_status = NumberAfter(err, REPORTED_STATUS_PREFIX)

\* A message with both numbers, as indexers word it: the status first.
C20_Witness ==
    /\ block_error_check # None
    /\ ~block_error_check[1].result.ok
    /\ block_error_check[1].result.err.unresolved = <<(<<"7">>)>>
    /\ block_error_check[1].result.err.reported_status = <<(<<"5">>)>>

(***************************************************************************)
(* POI resolver claims.                                                    *)
(***************************************************************************)
\* The calls that have looked the cache up.
Looked(c) == resolve_call[c].pc \in {"fetching", "returned"}
Returned(c) == resolve_call[c].pc = "returned"
\* No other call has looked the cache up since.
Latest(c) == resolve_call[c].seq = lookups
EntryAgeAtLookup(r) == r.lookup_at - Unwrap(r.seen).insertion_time
EntryOf(url) == poi_cache[status_url(url)]

\* C21: resolve never returns a cached map that was inserted more than the
\* TTL (20 minutes) ago: a hit returns the value of an entry that is at most
\* 1200 seconds old; a lookup that finds an entry older than that fetches
\* from the indexer, and when the fetch succeeds the entry is replaced by the
\* fetched map, stamped with the time of the insertion.
C21_NoEntryOlderThanTtl ==
    \A c \in Callers :
        Looked(c) =>
            LET r == resolve_call[c]
            IN  /\ (Returned(c) /\ r.hit) =>
                      /\ r.seen # None
                      /\ EntryAgeAtLookup(r) <= 20 * 60
                      /\ r.result = [ok |-> TRUE, pois |-> Unwrap(r.seen).value]
                /\ (r.seen # None /\ EntryAgeAtLookup(r) > 20 * 60) =>
                      \/ r.pc = "fetching"
                      \/ r.fetched /\ ~r.hit
                /\ (Returned(c) /\ r.fetched /\ r.result.ok) =>
                      /\ EntryOf(r.url) # None
                      /\ Unwrap(EntryOf(r.url)).insertion_time >= r.returned_at
                      /\ Latest(c) =>
                            EntryOf(r.url) = Some([value |-> r.result.pois,
                                                   insertion_time |-> r.returned_at])

\* An expired entry was found, fetched again and replaced by a different map.
C21_Witness ==
    \E c \in Callers :
        /\ Returned(c) /\ Latest(c)
        /\ resolve_call[c].fetched /\ resolve_call[c].result.ok
        /\ resolve_call[c].seen # None
        /\ EntryAgeAtLookup(resolve_call[c]) = 20 * 60 + 1
        /\ Unwrap(resolve_call[c].seen).value # resolve_call[c].result.pois
        /\ EntryOf(resolve_call[c].url) =
              Some([value |-> resolve_call[c].result.pois,
                    insertion_time |-> resolve_call[c].returned_at])

TimedOut(c) ==
    /\ Returned(c)
    /\ resolve_call[c].fetched
    /\ ~resolve_call[c].result.ok

\* C22: when the fetch exceeds the resolution timeout (5 s by default)
\* resolve returns ResolutionError::Timeout, the timeout after the lookup,
\* and the cache is as it was before the call: nothing is inserted or
\* replaced.  The next resolve for that URL fetches again.  A fetch that
\* does not exceed the timeout does not time out.
C22_TimeoutLeavesCache ==
    \A c \in Callers :
        /\ (Returned(c) /\ resolve_call[c].fetched) =>
              (TimedOut(c) <=> resolve_call[c].elapsed > poi_timeout)
        /\ TimedOut(c) =>
            LET r == resolve_call[c]
            IN  /\ r.result = Err(ResolutionTimeout)
                /\ r.returned_at = r.lookup_at + poi_timeout
                /\ Latest(c) => poi_cache = r.cache_before
                /\ \A o \in Callers \ {c} :
                      (Looked(o) /\ resolve_call[o].seq = r.seq + 1
                          /\ resolve_call[o].url = r.url) =>
                         (resolve_call[o].pc = "fetching" \/ resolve_call[o].fetched)

\* A call timed out while the cache held an expired entry for its URL, and
\* the next call for the URL is fetching.
C22_Witness ==
    \E c \in Callers, o \in Callers :
        /\ TimedOut(c)
        /\ resolve_call[c].seen # None
        /\ resolve_call[o].pc = "fetching"
        /\ resolve_call[o].seq = resolve_call[c].seq + 1
        /\ resolve_call[o].url = resolve_call[c].url
        /\ EntryOf(resolve_call[c].url) = resolve_call[c].seen

SameUrl(c, o) == resolve_call[c].url = resolve_call[o].url

\* C23 as stated: a resolve call made while another call for the same URL is
\* fetching is not kept waiting for it (the two overlap and both fetch).
C23_OverlappingCallsNotSerialized ==
    \A c \in Callers, o \in Callers :
        (c # o /\ resolve_call[o].pc = "fetching" /\ resolve_call[c].pc # "idle"
            /\ SameUrl(c, o)) =>
           resolve_call[c].pc # "waiting"

\* C23, amended: resolve calls on one resolver never overlap.  At most one
\* call is inside resolve; a call made meanwhile looks the cache up only after
\* that call returned, and when that call's fetch succeeded it hits the cache
\* and fetches nothing (within the TTL).  The entry left in the cache is
\* the one of the call that fetched last.
C23_ResolveCallsSerialized ==
    /\ Cardinality({c \in Callers : resolve_call[c].pc = "fetching"}) <= 1
    /\ \A c \in Callers, o \in Callers :
          (c # o /\ Looked(c) /\ Returned(o) /\ SameUrl(c, o)
              /\ resolve_call[c].seq > resolve_call[o].seq) =>
             /\ resolve_call[c].lookup_at >= resolve_call[o].returned_at
             /\ (resolve_call[o].fetched /\ resolve_call[o].result.ok
                    /\ resolve_call[c].lookup_at - resolve_call[o].returned_at <= 20 * 60) =>
                   /\ Returned(c) /\ resolve_call[c].hit /\ ~resolve_call[c].fetched
                   /\ resolve_call[c].result.pois = resolve_call[o].result.pois

\* A call was made while another call for the same URL was fetching; it
\* waited, then hit the entry that call had inserted.
C23_Witness ==
    \E c \in Callers, o \in Callers :
        /\ c # o /\ Returned(c) /\ Returned(o) /\ SameUrl(c, o)
        /\ resolve_call[o].fetched /\ resolve_call[o].result.ok
        /\ resolve_call[c].seq = resolve_call[o].seq + 1
        /\ resolve_call[c].called_at < resolve_call[o].returned_at
        /\ resolve_call[c].called_at >= resolve_call[o].lookup_at
        /\ resolve_call[c].hit

(***************************************************************************)
(* Topology snapshot claims.  The conditions are restated on the upstream  *)
(* records.                                                                *)
(***************************************************************************)
Snap == Unwrap(snapshot)
InfoOf(i) == topology.indexers_info[i]
Listed(s) == topology.subgraphs_info[s].versions
ListedSubgraphs == DOMAIN topology.subgraphs_info
ListedDeployments ==
    UNION {{Listed(s)[i].deployment : i \in DOMAIN Listed(s)} : s \in ListedSubgraphs}
ListedIds == {d.id : d \in ListedDeployments}
\* The listings of deployments, <<place of the subgraph in the iteration of
\* subgraphs_info, place of the version in the subgraph>>, the record of a
\* listing, and the record the upstream gives last for a deployment id.
Listings ==
    UNION {{<<p, i>> : i \in DOMAIN Listed(topology.values[p])} :
              p \in DOMAIN topology.values}
ListingInfo(l) == Listed(topology.values[l[1]])[l[2]].deployment
ListingsOf(d) == {l \in Listings : ListingInfo(l).id = d}
NotBefore(l, m) == l[1] > m[1] \/ (l[1] = m[1] /\ l[2] >= m[2])
ListedInfo(d) ==
    ListingInfo(CHOOSE l \in ListingsOf(d) : \A m \in ListingsOf(d) : NotBefore(l, m))
\* Every listing of the deployment id carries the same record.
OneRecord(d) == \A l \in ListingsOf(d) : ListingInfo(l) = ListedInfo(d)
TransferredToL2(d) == d.transferred_to_l2 /\ Len(d.allocations) = 0
\* The tables of indexings of the snapshot.
IndexingTables ==
    {Snap.subgraphs[s].indexings : s \in DOMAIN Snap.subgraphs}
    \cup {Snap.deployments[d].indexings : d \in DOMAIN Snap.deployments}
\* An allocation of a listed deployment that passes the filters of step 6.
Healthy(d, a) ==
    /\ a.indexer \in DOMAIN topology.indexers_info
    /\ d.id \in InfoOf(a.indexer).deployments
    /\ d.id \in DOMAIN InfoOf(a.indexer).largest_allocation
    /\ d.id \in DOMAIN InfoOf(a.indexer).total_allocated_tokens
\* The versions of a listed subgraph that pass the filters of step 4: the
\* version's record has a manifest network and the record given last for
\* its deployment id is not a transferred one.
Surviving(s) ==
    {i \in DOMAIN Listed(s) :
        /\ Listed(s)[i].deployment.manifest_network # None
        /\ ~TransferredToL2(ListedInfo(Listed(s)[i].deployment.id))}
First(idx) == CHOOSE i \in idx : \A j \in idx : i <= j
Clamped(n) == IF n < 0 THEN 0 ELSE IF n > 255 THEN 255 ELSE n

\* C24: every IndexingId key k of every Subgraph.indexings and of every
\* Deployment.indexings names an indexer of indexers_info that lists
\* k.deployment among its deployments and has largest_allocation and
\* total_allocated_tokens entries for it (the ones the indexing carries).
C24_IndexingKeysAreKnown ==
    snapshot # None =>
        \A t \in IndexingTables : \A k \in DOMAIN t :
            /\ k.indexer \in DOMAIN topology.indexers_info
            /\ k.deployment \in InfoOf(k.indexer).deployments
            /\ k.deployment \in DOMAIN InfoOf(k.indexer).largest_allocation
            /\ k.deployment \in DOMAIN InfoOf(k.indexer).total_allocated_tokens
            /\ t[k].id = k
            /\ t[k].largest_allocation = InfoOf(k.indexer).largest_allocation[k.deployment]
            /\ t[k].total_allocated_tokens =
                  InfoOf(k.indexer).total_allocated_tokens[k.deployment]

\* A snapshot with an indexing, built from records in which the known
\* indexer has an allocation on a deployment it does not list as healthy.
C24_Witness ==
    /\ snapshot # None
    /\ \E t \in IndexingTables : DOMAIN t # {}
    /\ \E d \in ListedDeployments : \E i \in DOMAIN d.allocations :
          /\ d.allocations[i].indexer \in DOMAIN topology.indexers_info
          /\ d.id \notin InfoOf(d.allocations[i].indexer).deployments
          /\ d.manifest_network # None /\ ~d.transferred_to_l2

\* C25: no key of transferred_subgraphs is a key of subgraphs, no member of
\* transferred_deployments is a key of deployments or the deployment of an
\* indexing of the snapshot.
C25_TransferredAreExcluded ==
    snapshot # None =>
        /\ DOMAIN Snap.transferred_subgraphs \cap DOMAIN Snap.subgraphs = {}
        /\ Snap.transferred_deployments \cap DOMAIN Snap.deployments = {}
        /\ \A t \in IndexingTables : \A k \in DOMAIN t :
              k.deployment \notin Snap.transferred_deployments
        /\ \A s \in DOMAIN Snap.subgraphs :
              Snap.subgraphs[s].deployments \cap Snap.transferred_deployments = {}

\* A transferred subgraph and a transferred deployment next to a subgraph
\* and a deployment that are in the tables.
C25_Witness ==
    /\ snapshot # None
    /\ DOMAIN Snap.transferred_subgraphs # {}
    /\ Snap.transferred_deployments # {}
    /\ DOMAIN Snap.subgraphs # {}
    /\ DOMAIN Snap.deployments # {}

\* C26: every indexing of a snapshot subgraph has versions_behind equal to
\* the difference between the number of the subgraph's highest (valid)
\* version and the number of the version that lists its deployment, never
\* below 0 and clamped to 255, and the indexings of the deployment of the
\* highest version have versions_behind = 0.
C26_VersionsBehind ==
    snapshot # None =>
        \A s \in DOMAIN Snap.subgraphs :
            LET highest == Listed(s)[First(Surviving(s))]
            IN  \A k \in DOMAIN Snap.subgraphs[s].indexings :
                    /\ \A i \in Surviving(s) :
                          Listed(s)[i].deployment.id = k.deployment =>
                             Snap.subgraphs[s].indexings[k].versions_behind =
                                Clamped(highest.version - Listed(s)[i].version)
                    /\ k.deployment = highest.deployment.id =>
                          Snap.subgraphs[s].indexings[k].versions_behind = 0

\* The scenario of C27: two versions, the higher one's deployment
\* transferred to L2 with no allocations, the lower one with a manifest
\* network and an allocation of a known indexer that lists it as healthy.
C27_Scenario(s) ==
    /\ s \in ListedSubgraphs
    /\ Len(Listed(s)) = 2
    /\ Listed(s)[1].version > Listed(s)[2].version
    /\ TransferredToL2(Listed(s)[1].deployment)
    /\ Listed(s)[2].deployment.manifest_network # None
    /\ \E i \in DOMAIN Listed(s)[2].deployment.allocations :
          LET a == Listed(s)[2].deployment.allocations[i]
          IN  /\ a.indexer \in DOMAIN topology.indexers_info
              /\ Listed(s)[2].deployment.id \in InfoOf(a.indexer).deployments

C27_Allocated(s) ==
    \E i \in DOMAIN Listed(s)[2].deployment.allocations :
        Healthy(Listed(s)[2].deployment, Listed(s)[2].deployment.allocations[i])

\* The records of the two versions are the ones listed last for their
\* deployment ids.
C27_ListedLast(s) ==
    \A i \in DOMAIN Listed(s) :
        ListedInfo(Listed(s)[i].deployment.id) = Listed(s)[i].deployment

\* C27 as stated: in the scenario (with the indexer's allocation entries
\* present) the subgraph is in the snapshot with only the lower version's
\* indexings, and these have versions_behind = 1.
C27_SurvivorIsOneBehind ==
    snapshot # None =>
        \A s \in SubgraphIds :
            (C27_Scenario(s) /\ C27_Allocated(s)) =>
                /\ s \in DOMAIN Snap.subgraphs
                /\ \A k \in DOMAIN Snap.subgraphs[s].indexings :
                      /\ k.deployment = Listed(s)[2].deployment.id
                      /\ Snap.subgraphs[s].indexings[k].versions_behind = 1

\* C27, amended: in the scenario, when the indexer also has
\* largest_allocation and total_allocated_tokens entries for the lower
\* version's deployment and the two versions' records are the ones listed
\* last for their deployment ids, the subgraph is in the snapshot with only
\* the lower version's indexings, and these have versions_behind = 0: the
\* lower version is the highest valid one.
C27_SurvivorIsHighest ==
    snapshot # None =>
        \A s \in SubgraphIds :
            (C27_Scenario(s) /\ C27_Allocated(s) /\ C27_ListedLast(s)) =>
                /\ s \in DOMAIN Snap.subgraphs
                /\ DOMAIN Snap.subgraphs[s].indexings # {}
                /\ \A k \in DOMAIN Snap.subgraphs[s].indexings :
                      /\ k.deployment = Listed(s)[2].deployment.id
                      /\ Snap.subgraphs[s].indexings[k].versions_behind = 0

C27_Witness ==
    /\ snapshot # None
    /\ C27_Scenario("subgraph1") /\ C27_Allocated("subgraph1")
    /\ C27_ListedLast("subgraph1")
    /\ "subgraph1" \in DOMAIN Snap.subgraphs

\* A (version, allocation) pair of a listed subgraph that survives the filters.
SurvivingPairs(s) ==
    {<<i, j>> \in (DOMAIN Listed(s)) \X (1..3) :
        /\ i \in Surviving(s)
        /\ j \in DOMAIN Listed(s)[i].deployment.allocations
        /\ Healthy(Listed(s)[i].deployment, Listed(s)[i].deployment.allocations[j])}

\* C28: every Subgraph of a snapshot has at least one indexing and its
\* deployments set is the set of the deployments of its indexings' keys; a
\* listed subgraph is in the snapshot exactly when one of its (version,
\* allocation) pairs survives the filters.
C28_SubgraphsHaveIndexings ==
    snapshot # None =>
        /\ \A s \in DOMAIN Snap.subgraphs :
              /\ DOMAIN Snap.subgraphs[s].indexings # {}
              /\ Snap.subgraphs[s].deployments =
                    {k.deployment : k \in DOMAIN Snap.subgraphs[s].indexings}
              /\ DOMAIN Snap.subgraphs[s].indexings =
                    {[indexer |-> Listed(s)[p[1]].deployment.allocations[p[2]].indexer,
                      deployment |-> Listed(s)[p[1]].deployment.id] : p \in SurvivingPairs(s)}
        /\ \A s \in ListedSubgraphs :
              s \in DOMAIN Snap.subgraphs <=> SurvivingPairs(s) # {}

\* A subgraph of three versions in the snapshot, one of them without a
\* surviving allocation, and a listed subgraph with a valid version that is
\* dropped because no allocation survives.
C28_Witness ==
    /\ snapshot # None
    /\ \E s \in DOMAIN Snap.subgraphs :
          /\ Len(Listed(s)) = 3
          /\ Cardinality(Snap.subgraphs[s].deployments) = 1
    /\ \E s \in ListedSubgraphs :
          /\ s \notin DOMAIN Snap.subgraphs
          /\ Surviving(s) # {}
          /\ s \notin DOMAIN Snap.transferred_subgraphs

\* C29: every Deployment of a snapshot has at least one indexing and at
\* least one subgraph id; every id of its subgraphs set is a key of the
\* subgraphs table whose Subgraph lists the deployment; every indexing of
\* the deployments table has versions_behind = 0.
C29_DeploymentsHaveIndexingsAndSubgraphs ==
    snapshot # None =>
        \A d \in DOMAIN Snap.deployments :
            /\ DOMAIN Snap.deployments[d].indexings # {}
            /\ Snap.deployments[d].subgraphs # {}
            /\ \A s \in Snap.deployments[d].subgraphs :
                  /\ s \in DOMAIN Snap.subgraphs
                  /\ d \in Snap.subgraphs[s].deployments
            /\ \A k \in DOMAIN Snap.deployments[d].indexings :
                  /\ k.deployment = d
                  /\ Snap.deployments[d].indexings[k].versions_behind = 0

\* A deployment of two subgraphs next to a deployment of one of them only,
\* whose indexing is behind in the subgraph's table.
C29_Witness ==
    /\ snapshot # None
    /\ \E d \in DOMAIN Snap.deployments : Cardinality(Snap.deployments[d].subgraphs) = 2
    /\ \E d \in DOMAIN Snap.deployments :
          /\ Cardinality(Snap.deployments[d].subgraphs) = 1
          /\ \E s \in Snap.deployments[d].subgraphs :
                \E k \in DOMAIN Snap.subgraphs[s].indexings :
                    /\ k.deployment = d
                    /\ Snap.subgraphs[s].indexings[k].versions_behind > 0

\* C30: transferred_subgraphs maps to its id_on_l2 exactly each listed
\* subgraph that has an id_on_l2 and all of whose versions' deployments are
\* marked transferred_to_l2 and have no allocations; transferred_deployments
\* is exactly the set of the deployments of the deployments table (the record
\* of an id is the one listed last) marked transferred_to_l2 that have no
\* allocations.
C30_TransferredTables ==
    snapshot # None =>
        /\ DOMAIN Snap.transferred_subgraphs =
              {s \in ListedSubgraphs :
                  /\ topology.subgraphs_info[s].id_on_l2 # None
                  /\ \A i \in DOMAIN Listed(s) : TransferredToL2(Listed(s)[i].deployment)}
        /\ \A s \in DOMAIN Snap.transferred_subgraphs :
              Some(Snap.transferred_subgraphs[s]) = topology.subgraphs_info[s].id_on_l2
        /\ Snap.transferred_deployments =
              {d \in ListedIds : TransferredToL2(ListedInfo(d))}

\* A transferred subgraph of two versions, and a second subgraph whose
\* deployment is marked transferred_to_l2 but still has an allocation.
C30_Witness ==
    /\ snapshot # None
    /\ \E s \in DOMAIN Snap.transferred_subgraphs : Len(Listed(s)) = 2
    /\ \E d \in ListedDeployments :
          /\ d.transferred_to_l2
          /\ d.id \notin Snap.transferred_deployments

(***************************************************************************)
(* Claims on what the signer generates.                                    *)
(***************************************************************************)
\* The methods of ReceiptSigner that sign a receipt for an outbound request.
SignerMethods ==
    {"create_receipt_with_strategy", "create_receipt_v1", "create_receipt",
     "create_receipt_for_indexer"}

\* C31: the gateway only generates v2 receipts: every receipt a ReceiptSigner
\* creation method returns is of the version generation_version() names, V2.
C31_OnlyV2Generated ==
    (Created /\ LastCall.method \in SignerMethods) =>
        /\ LastCall.result.receipt.ver = generation_version
        /\ is_v2(LastCall.result.receipt)

(***************************************************************************)
(* Claims on the reporter's error paths.                                   *)
(***************************************************************************)
\* C32: write_buf is empty whenever report() starts encoding a record, so
\* the payload of every record handed to the Kafka producer is the encoding
\* of exactly one protobuf message, also after an earlier send has failed.
C32_PayloadIsOneMessage ==
    /\ (task = "running" /\ chan # <<>>) => write_buf = <<>>
    /\ \A i \in DOMAIN sends : Len(sends[i].payload) = 1

\* The sends refused by the producer, for the `queries` record of request r
\* and for the attestation of its i-th indexer request.
QueriesRefused(r) ==
    \E k \in SendIdx : /\ sends[k].topic = "queries"
                       /\ sends[k].by = <<r, 0>>
                       /\ ~sends[k].accepted
AttestationRefused(r, i) ==
    \E k \in SendIdx : /\ sends[k].topic = "attestations"
                       /\ sends[k].by = <<r, i>>
                       /\ ~sends[k].accepted

\* C33: a Kafka send failure inside report() abandons the rest of that
\* ClientRequest.  After a refused `queries` send the sampler is not
\* consulted and no attestation record is sent for the request.  After a
\* refused `attestations` send nothing is sent (and the sampler is not
\* consulted) for the remaining indexer requests of the request, while the
\* pair of the refused record stays in the sampler for the window: it is in
\* the records as long as the window lasts and every later call for it in
\* that window returns false.
C33_SendFailureAbandonsRequest ==
    \A r \in 1..Len(received) :
        /\ QueriesRefused(r) =>
              /\ \A c \in CallIdx : calls[c].by[1] # r
              /\ \A k \in SendIdx : sends[k].by[1] = r => sends[k].topic = "queries"
        /\ \A i \in 1..Len(received[r].indexer_requests) :
              AttestationRefused(r, i) =>
                /\ \A k \in SendIdx :
                      sends[k].by[1] = r => sends[k].by[2] <= i
                /\ \A c \in CallIdx :
                      calls[c].by[1] = r => calls[c].by[2] <= i
                /\ \E c \in CallIdx :
                      /\ calls[c].by = <<r, i>>
                      /\ calls[c].ret
                      /\ calls[c].window = attestation_sampler.last_eviction
                            => calls[c].pair \in attestation_sampler.records
                      /\ \A d \in CallIdx :
                            (/\ d > c
                             /\ calls[d].pair = calls[c].pair
                             /\ calls[d].window = calls[c].window) => ~calls[d].ret

\* The `queries` send of the first request is refused although it has an
\* attested indexer request; the attestation of the first indexer request
\* of the second request is refused, a second attested one follows it, and
\* the pair of the refused record is still in the sampler.
C33_Witness ==
    /\ Len(received) = 2
    /\ QueriesRefused(1)
    /\ \E i \in DOMAIN received[1].indexer_requests :
          HasAttestation(received[1].indexer_requests[i])
    /\ AttestationRefused(2, 1)
    /\ Len(received[2].indexer_requests) = 2
    /\ HasAttestation(received[2].indexer_requests[2])
    /\ received[2].indexer_requests[2].deployment
          # received[2].indexer_requests[1].deployment
    /\ <<received[2].indexer_requests[1].deployment,
          received[2].indexer_requests[1].indexer>> \in attestation_sampler.records

\* The indexer request a call of should_sample was made for.
RequestOfCall(c) == received[calls[c].by[1]].indexer_requests[calls[c].by[2]]

\* C34: an indexer request that carries no attestation (an error result, or
\* a success without attestation) still takes the sampler slot of its
\* (deployment, indexer) for the current window: the pair is in the records
\* while the window lasts, and a later request for the same pair in the same
\* window, attested or not, is not sampled and produces no attestation
\* record.
C34_UnattestedTakesSlot ==
    \A c \in CallIdx :
        (calls[c].ret /\ ~HasAttestation(RequestOfCall(c))) =>
            /\ calls[c].window = attestation_sampler.last_eviction
                  => calls[c].pair \in attestation_sampler.records
            /\ \A d \in CallIdx :
                  (/\ d > c
                   /\ calls[d].pair = calls[c].pair
                   /\ calls[d].window = calls[c].window) =>
                      /\ ~calls[d].ret
                      /\ AttestationSends(calls[d].by) = {}

\* An error result and a success without attestation have each taken a
\* slot, and attested requests for the two pairs followed in the same
\* window.
C34_Witness ==
    \E c1, c2, d1, d2 \in CallIdx :
        /\ calls[c1].ret /\ ~RequestOfCall(c1).result.ok
        /\ calls[c2].ret /\ RequestOfCall(c2).result.ok
        /\ ~HasAttestation(RequestOfCall(c2))
        /\ d1 > c1 /\ calls[d1].pair = calls[c1].pair
        /\ calls[d1].window = calls[c1].window
        /\ HasAttestation(RequestOfCall(d1))
        /\ d2 > c2 /\ calls[d2].pair = calls[c2].pair
        /\ calls[d2].window = calls[c2].window
        /\ HasAttestation(RequestOfCall(d2))
        /\ \A k \in SendIdx : sends[k].topic = "queries"

(***************************************************************************)
(* Claims on short receipts.                                               *)
(***************************************************************************)
\* C35: query_indexer called with a serialized receipt shorter than 32 bytes
\* (fewer than 64 hex characters) sends no HTTP request and returns no
\* IndexerError: the call panics; and it panics for no other receipt.
C35_ShortReceiptPanics ==
    indexer_query.pc # "idle" =>
        /\ Len(indexer_query.receipt) < 32 =>
              /\ indexer_query.pc = "panicked"
              /\ indexer_query.request = None
              /\ "result" \notin DOMAIN indexer_query
              /\ "response" \notin DOMAIN indexer_query
        /\ indexer_query.pc = "panicked" =>
              Len(hex_encode(indexer_query.receipt)) < 64

\* The graph-gateway client has been called with a receipt of 31 bytes, 62
\* hex characters.
C35_Witness ==
    /\ indexer_query.pc = "panicked"
    /\ indexer_query.client = "graph-gateway"
    /\ Len(indexer_query.receipt) = 31
    /\ Len(hex_encode(indexer_query.receipt)) = 62

(***************************************************************************)
(* Claims on what a cache hit returns.                                     *)
(***************************************************************************)
\* C36: on a cache hit, resolve(url, pois) returns the map stored for the
\* status URL by the earlier call that filled the cache, whatever `pois` is
\* requested now: a lookup that finds an entry that has not expired returns
\* its value and fetches nothing, so a pair requested now but missing from
\* the stored map is absent from the result.
C36_HitReturnsStoredMap ==
    \A c \in Callers :
        (/\ Looked(c)
         /\ resolve_call[c].seen # None
         /\ EntryAgeAtLookup(resolve_call[c]) <= poi_ttl) =>
            LET r == resolve_call[c]
            IN  /\ Returned(c)
                /\ r.hit
                /\ ~r.fetched
                /\ r.returned_at = r.lookup_at
                /\ r.result = [ok |-> TRUE, pois |-> Unwrap(r.seen).value]
                /\ \A p \in r.pois :
                      p \notin DOMAIN Unwrap(r.seen).value
                          => p \notin DOMAIN r.result.pois

\* One caller fetched the POI of QmA only; the other then asked the same
\* indexer for QmA and QmB, hit the entry and got the map without QmB.
C36_Witness ==
    \E c, o \in Callers :
        /\ c # o
        /\ Returned(o) /\ resolve_call[o].fetched /\ resolve_call[o].result.ok
        /\ resolve_call[o].pois = {<<"QmA", 7>>}
        /\ Returned(c) /\ resolve_call[c].hit
        /\ SameUrl(c, o)
        /\ resolve_call[c].seq > resolve_call[o].seq
        /\ resolve_call[c].pois = PoiPairs
        /\ resolve_call[c].result.pois = resolve_call[o].result.pois
        /\ DOMAIN resolve_call[c].result.pois = {<<"QmA", 7>>}

(***************************************************************************)
(* Claims on the two tables of the snapshot.                               *)
(***************************************************************************)
\* C37 as stated: every deployment id in the `deployments` set of a Subgraph
\* is a key of the snapshot's deployments table, also for a deployment whose
\* manifest has a network but no start block.
C37_SubgraphDeploymentsInTable ==
    snapshot # None =>
        \A s \in DOMAIN Snap.subgraphs :
            Snap.subgraphs[s].deployments \subseteq DOMAIN Snap.deployments

\* C37: a deployment id in the `deployments` set of a Subgraph is a key of
\* the deployments table exactly when the record listed last for it has a
\* manifest network, a manifest start block and an allocation that passes
\* the filters; when every listing of the id carries the same record,
\* exactly when its manifest has a start block: a deployment whose manifest
\* has a network but no start block is in the set and not in the table.
C37_InTableIffStartBlock ==
    snapshot # None =>
        \A s \in DOMAIN Snap.subgraphs :
            \A d \in Snap.subgraphs[s].deployments :
                /\ d \in DOMAIN Snap.deployments
                      <=> /\ ListedInfo(d).manifest_network # None
                          /\ ListedInfo(d).manifest_start_block # None
                          /\ \E i \in DOMAIN ListedInfo(d).allocations :
                                Healthy(ListedInfo(d), ListedInfo(d).allocations[i])
                /\ OneRecord(d) =>
                      /\ ListedInfo(d).manifest_network # None
                      /\ d \in DOMAIN Snap.deployments
                            <=> ListedInfo(d).manifest_start_block # None

\* A subgraph of the snapshot with two deployments: one with a start block,
\* in the deployments table, and one without, the highest version's, which
\* is not in the table; the subgraph's own start block is 0.
C37_Witness ==
    /\ snapshot # None
    /\ \E s \in DOMAIN Snap.subgraphs :
          /\ Snap.subgraphs[s].start_block = 0
          /\ \E d, n \in Snap.subgraphs[s].deployments :
                /\ d \in DOMAIN Snap.deployments
                /\ n \notin DOMAIN Snap.deployments
                /\ OneRecord(n)
                /\ ListedInfo(n).manifest_network # None
                /\ ListedInfo(n).manifest_start_block = None
                /\ Listed(s)[1].deployment.id = n

\* The surviving versions of a listed subgraph that list the deployment, and
\* the last-listed of them.
ListingVersions(s, d) == {i \in Surviving(s) : Listed(s)[i].deployment.id = d}
LastListing(s, d) ==
    CHOOSE i \in ListingVersions(s, d) : \A j \in ListingVersions(s, d) : j <= i

\* C38: when the same deployment id is listed by more than one surviving
\* version of a subgraph, the versions_behind of its indexings is the value
\* computed for the last-listed of those versions: the number of the highest
\* surviving version minus the number of that version, clamped to 255.
C38_LastListedVersionWins ==
    snapshot # None =>
        \A s \in DOMAIN Snap.subgraphs :
            \A k \in DOMAIN Snap.subgraphs[s].indexings :
                /\ ListingVersions(s, k.deployment) # {}
                /\ Snap.subgraphs[s].indexings[k].versions_behind =
                      Clamped(Listed(s)[First(Surviving(s))].version
                                - Listed(s)[LastListing(s, k.deployment)].version)

\* The deployment of the highest of three surviving versions is listed
\* again by the lowest one, and its indexings are 255 versions behind, while
\* the deployment of the version between them is 255 behind as well.
C38_Witness ==
    /\ snapshot # None
    /\ \E s \in DOMAIN Snap.subgraphs :
          /\ Surviving(s) = {1, 2, 3}
          /\ Listed(s)[1].deployment.id = Listed(s)[3].deployment.id
          /\ Listed(s)[2].deployment.id # Listed(s)[1].deployment.id
          /\ \E k \in DOMAIN Snap.subgraphs[s].indexings :
                /\ k.deployment = Listed(s)[1].deployment.id
                /\ Snap.subgraphs[s].indexings[k].versions_behind = u8_MAX
          /\ \E k \in DOMAIN Snap.subgraphs[s].indexings :
                /\ k.deployment = Listed(s)[2].deployment.id
                /\ Snap.subgraphs[s].indexings[k].versions_behind = u8_MAX

(***************************************************************************)
(* Claims on the horizon flag and the strategy.                            *)
(***************************************************************************)
\* This step is a status query that succeeded with the given answer.
CheckSucceedsWith(answer) ==
    /\ monitor.pc = "checking"
    /\ Len(check'.consulted) = Len(check.consulted) + 1
    /\ check'.outcome = "ok"
    /\ check'.consulted[Len(check'.consulted)].result.ok
    /\ check'.consulted[Len(check'.consulted)].result.answer = answer

\* The strategy follows the flag, and each strategy generates one version.
StrategyFollowsFlag ==
    /\ is_horizon_active = horizon_active
    /\ get_tap_strategy \in {PreHorizon, PostHorizon}
    /\ get_tap_strategy = PostHorizon <=> is_horizon_active
    /\ \A strategy \in {PreHorizon, PostHorizon} :
          should_generate_v1(strategy) <=> ~should_generate_v2(strategy)
    /\ should_generate_v1(PreHorizon) /\ should_generate_v2(PostHorizon)
    /\ check.outcome = "none" => (~is_horizon_active /\ get_tap_strategy = PreHorizon)

\* C39: is_horizon_active() is false and get_tap_strategy() is PreHorizon
\* from the construction of the tracker until a status check succeeds with
\* an active answer; the flag changes only in a successful check whose
\* answer differs from the current value, to that answer;
\* get_tap_strategy() is PostHorizon exactly when the flag is true, and
\* exactly one of should_generate_v1() and should_generate_v2() holds for
\* each strategy.
C39_FlagAndStrategy ==
    /\ [](StrategyFollowsFlag)
    /\ [][/\ horizon_active' # horizon_active => CheckSucceedsWith(horizon_active')
          /\ horizon_active' /\ ~horizon_active => CheckSucceedsWith(TRUE)
          /\ \A answer \in BOOLEAN :
                CheckSucceedsWith(answer) => horizon_active' = answer]_vars

\* The first trusted indexer failed and the second answered "active" while
\* the flag was false: the strategy is PostHorizon.
C39_Witness ==
    /\ check.outcome = "ok"
    /\ check.began_with = FALSE
    /\ Len(Consulted) = 2
    /\ ~Consulted[1].result.ok
    /\ Consulted[2].result.answer
    /\ is_horizon_active
    /\ get_tap_strategy = PostHorizon
    /\ should_generate_v2(get_tap_strategy) /\ ~should_generate_v1(get_tap_strategy)

====
